---- MODULE Spec2Model ----
(***************************************************************************)
(* Model of the weather-weaver ingestion pipeline:                         *)
(* WeatherConsumerService.download_datasets (services/service.py), the     *)
(* request builders (inputs/ecmwf/*/request.py) and the local artifact     *)
(* store (outputs/localfs/client.py).                                       *)
(*                                                                         *)
(* A run builds the request sequence, filters it against the store with   *)
(* is_valid, partitions the new requests into a dask bag and drives every  *)
(* partition through download -> filter -> process -> store on a worker    *)
(* pool.  Requests are tracked by their position in all_requests.          *)
(*                                                                         *)
(* Spec explores one invocation with either data source; SpecReplay        *)
(* explores consecutive invocations with the same arguments over the       *)
(* store the previous invocation left.                                     *)
(***************************************************************************)
EXTENDS Integers, Sequences, FiniteSets, TLC

\* ------------------------------------------------------------------ bounds
MaxDateOffset == 2
MaxRequests == 4
MaxReplayDateOffset == 1
MaxRuns == 2
MaxBuildOffset == 4
MaxFetchCalls == 3
MaxTransformTasks == 2
MaxLiveDateOffset == 2

\* --------------------------------------------------------------- constants
MIN_VALID_SIZE_BYTES == 1000000
MAX_THREADS == 4

\* Python None (an absent path or value)
None == <<>>
\* a path that does not exist
NoFile == [kind |-> "none", sizes |-> <<>>]

\* ------------------------------------------------------------------- dates
StartDates ==
    { [year |-> 2022, month |-> 1, day |-> 1],
      [year |-> 2023, month |-> 12, day |-> 31] }

\* start dates for the request builder on its own: the date of the test
\* suite, a year end, the day before a leap day and a leap day
BuildStartDates ==
    StartDates \cup { [year |-> 2024, month |-> 2, day |-> 28],
                      [year |-> 2024, month |-> 2, day |-> 29] }

IsLeap(y) == (y % 4 = 0 /\ y % 100 # 0) \/ y % 400 = 0

DaysInMonth(y, m) ==
    IF m = 2 THEN (IF IsLeap(y) THEN 29 ELSE 28)
    ELSE IF m \in {4, 6, 9, 11} THEN 30 ELSE 31

NextDay(d) ==
    IF d.day < DaysInMonth(d.year, d.month)
    THEN [d EXCEPT !.day = d.day + 1]
    ELSE IF d.month < 12
         THEN [year |-> d.year, month |-> d.month + 1, day |-> 1]
         ELSE [year |-> d.year + 1, month |-> 1, day |-> 1]

RECURSIVE AddDays(_, _)
AddDays(d, n) == IF n = 0 THEN d ELSE AddDays(NextDay(d), n - 1)

AddYears(d, n) ==
    LET y == d.year + n
        last == DaysInMonth(y, d.month)
    IN [year |-> y, month |-> d.month,
        day |-> IF d.day > last THEN last ELSE d.day]

\* utils.OffsetFrequency: DAILY and YEARLY are the members the service
\* matches on; any other member falls into the `case _` branch.
OffsetFrequency == {"DAILY", "YEARLY", "MONTHLY"}

\* WeatherConsumerService._date_offset
DateOffset(offset_frequency, offset) ==
    CASE offset_frequency = "DAILY" ->
            [raised |-> FALSE, days |-> offset, years |-> 0]
      [] offset_frequency = "YEARLY" ->
            [raised |-> FALSE, days |-> 0, years |-> offset]
      [] OTHER -> [raised |-> TRUE, days |-> 0, years |-> 0]

\* start + DateOffset(...) followed by .to_pydatetime().date()
AddOffset(d, off) == AddDays(AddYears(d, off.years), off.days)

\* ---------------------------------------------------------- GeoFilterModel
\* Coordinates are tenths of a degree.  A geometry is a set of axis-aligned
\* rectangles (the parts of a multi-polygon).
Rect(w, s, e, n) == [west |-> w, south |-> s, east |-> e, north |-> n]

\* constants.EUROPE_BOUNDING_BOX_STR, as the (letter, number) pairs the
\* regular expression of BoundingBox.from_str finds, in order
EUROPE_BOUNDING_BOX_STR ==
    << <<"N", 735>>, <<"W", -270>>, <<"S", 330>>, <<"E", 450>> >>

\* constants.ENTSO_E_ISO3_LIST (the members present in World)
ENTSO_E_ISO3_LIST == {"NOR", "FRA", "ESP", "ISL", "CYP"}

\* BoundingBox.from_str: the numbers found are taken as north, west, south,
\* east by position
FromStr(value) ==
    [north |-> value[1][2], west |-> value[2][2],
     south |-> value[3][2], east |-> value[4][2]]

\* BoundingBox.geometry: shapely.box(west, south, east, north)
BoxGeometry(bb) == Rect(bb.west, bb.south, bb.east, bb.north)

\* load_world_countries: the country catalog (country_iso3, geometry), with
\* overseas parts outside Europe and one country across its eastern edge
World ==
    << [country_iso3 |-> "ISL", geometry |-> {Rect(-245, 633, -135, 665)}],
       [country_iso3 |-> "NOR", geometry |-> {Rect(50, 580, 310, 711),
                                              Rect(105, 765, 335, 805)}],
       [country_iso3 |-> "FRA", geometry |-> {Rect(-50, 425, 80, 510),
                                              Rect(-545, 21, -516, 57)}],
       [country_iso3 |-> "ESP", geometry |-> {Rect(-93, 360, 33, 438),
                                              Rect(-181, 276, -134, 292)}],
       [country_iso3 |-> "CYP", geometry |-> {Rect(323, 346, 346, 357)}],
       [country_iso3 |-> "RUS", geometry |-> {Rect(280, 412, 1800, 815)}],
       [country_iso3 |-> "USA", geometry |-> {Rect(-1250, 250, -670, 490)}] >>

SetMin(S) == CHOOSE x \in S : \A y \in S : x <= y
SetMax(S) == CHOOSE x \in S : \A y \in S : x >= y
Larger(a, b) == IF a >= b THEN a ELSE b
Smaller(a, b) == IF a <= b THEN a ELSE b

RectIntersects(a, b) ==
    /\ a.west <= b.east /\ b.west <= a.east
    /\ a.south <= b.north /\ b.south <= a.north

\* world.intersects(bbox_polygon), row by row
Intersects(geometry, box) == \E r \in geometry : RectIntersects(r, box)

\* gpd.clip(filtered_df, bbox_polygon), row by row
Clip(geometry, box) ==
    { Rect(Larger(r.west, box.west), Larger(r.south, box.south),
           Smaller(r.east, box.east), Smaller(r.north, box.north)) :
        r \in {q \in geometry : RectIntersects(q, box)} }

\* the four numbers of an empty geometry's bounds are all NaN
NaNBounds ==
    [nan |-> TRUE, min_lon |-> 0, min_lat |-> 0, max_lon |-> 0, max_lat |-> 0]

\* shapely.unary_union(geometries).bounds
UnaryUnionBounds(geometries) ==
    LET parts == UNION {geometries[k] : k \in 1..Len(geometries)}
    IN IF parts = {} THEN NaNBounds
       ELSE [nan |-> FALSE,
             min_lon |-> SetMin({r.west : r \in parts}),
             min_lat |-> SetMin({r.south : r \in parts}),
             max_lon |-> SetMax({r.east : r \in parts}),
             max_lat |-> SetMax({r.north : r \in parts})]

\* filter_df.geometry
GeometryColumn(filter_df) == [k \in 1..Len(filter_df) |-> filter_df[k].geometry]

\* GeoFilterModel.filter_iso3s
FilterIso3s(gf, list_iso3s) ==
    LET isin(row) == row.country_iso3 \in list_iso3s
    IN [filter_df |-> SelectSeq(gf.filter_df, isin), method |-> "within"]

\* GeoFilterModel.from_bounding_box
FromBoundingBox(bounding_box) ==
    LET bbox_polygon == BoxGeometry(bounding_box)
        hit(row) == Intersects(row.geometry, bbox_polygon)
        filtered_df == SelectSeq(World, hit)
        clipped_df == [k \in 1..Len(filtered_df) |->
                          [filtered_df[k] EXCEPT
                              !.geometry = Clip(@, bbox_polygon)]]
    IN [filter_df |-> clipped_df, method |-> "within"]

\* variant of bounds: the value computed when the Europe filter was built
Bounds_AtConstruction(gf) ==
    UnaryUnionBounds(
        GeometryColumn(FromBoundingBox(FromStr(EUROPE_BOUNDING_BOX_STR)).filter_df))

\* GeoFilterModel.bounds: computed from filter_df at every access
Bounds(gf) == UnaryUnionBounds(GeometryColumn(gf.filter_df))

\* the float that is not a number
NaN == "nan"

\* GeoFilterModel.bounding_box: the four numbers of bounds, each of them
\* NaN for a filter with no geometry
BoundingBoxOf(gf) ==
    LET bounds == Bounds(gf)
    IN IF bounds.nan
       THEN [north |-> NaN, west |-> NaN, south |-> NaN, east |-> NaN]
       ELSE [north |-> bounds.max_lat, west |-> bounds.min_lon,
             south |-> bounds.min_lat, east |-> bounds.max_lon]

\* GeoFilterModel.filter_iso3s: the filter it was called on, after the call
\* (the method indexes self.filter_df and assigns nothing to self)
FilterIso3sSelf(gf, list_iso3s) == gf

\* variant of filter_dataset: the slice is taken from the first region
FilterDataset_FirstRegion(gf, dataset) ==
    LET bounds == IF Len(gf.filter_df) = 0 THEN NaNBounds
                  ELSE UnaryUnionBounds(<<gf.filter_df[1].geometry>>)
    IN [dataset EXCEPT !.longitude =
          SelectSeq(@, LAMBDA x : /\ ~bounds.nan
                                   /\ bounds.min_lon <= x
                                   /\ x <= bounds.max_lon)]

\* GeoFilterModel.filter_dataset:
\* dataset.sel(longitude=slice(min_lon, max_lon)) on an increasing
\* longitude coordinate keeps the labels within the two ends, ends included;
\* no label lies within two NaN ends
FilterDataset(gf, dataset) ==
    LET bounds == Bounds(gf)
    IN [dataset EXCEPT !.longitude =
          SelectSeq(@, LAMBDA x : /\ ~bounds.nan
                                   /\ bounds.min_lon <= x
                                   /\ x <= bounds.max_lon)]

\* EMCWFProcessor.process: one row per grid point, with its point geometry
Process(dataset) ==
    { [longitude |-> dataset.longitude[a], latitude |-> dataset.latitude[b]] :
        a \in 1..Len(dataset.longitude), b \in 1..Len(dataset.latitude) }

\* the "within" predicate: the point lies in the interior of the geometry
Within(row, geometry) ==
    \E r \in geometry :
        /\ r.west < row.longitude /\ row.longitude < r.east
        /\ r.south < row.latitude /\ row.latitude < r.north

\* GeoFilterModel.filter_dask: ddf.sjoin(self.filter_df, predicate=self.method),
\* one row per (point, region) pair that satisfies the predicate
FilterDask(gf, ddf) ==
    { [longitude |-> row.longitude, latitude |-> row.latitude,
       index_right |-> k, country_iso3 |-> gf.filter_df[k].country_iso3] :
        <<row, k>> \in
            { pair \in ddf \X (1..Len(gf.filter_df)) :
                /\ gf.method = "within"
                /\ Within(pair[1], gf.filter_df[pair[2]].geometry) } }

\* EMCWFProcessor.post_process: the columns geometry, index_right and step
\* are dropped from the joined frame
PostProcess(ddf) ==
    { [longitude |-> row.longitude, latitude |-> row.latitude,
       country_iso3 |-> row.country_iso3] : row \in ddf }

\* main.load_area(Area.ENTSOE)
LoadArea ==
    FilterIso3s(FromBoundingBox(FromStr(EUROPE_BOUNDING_BOX_STR)),
                ENTSO_E_ISO3_LIST)

\* no GeoFilterModel
NoGeoFilter == [filter_df |-> <<>>, method |-> "none"]

\* no merged dataset
NoGrid == [longitude |-> <<>>, latitude |-> <<>>]

\* a task that has not called processor.transform
NoTransform ==
    [position |-> "idle", instance |-> 0,
     geo_filter |-> NoGeoFilter, dataset |-> NoGrid,
     trimmed |-> NoGrid, ddf |-> {}, ret |-> {}]

\* no value read yet
NoBounds == [of |-> "none", value |-> NaNBounds, filter_df |-> <<>>]

\* ---------------------------------------------------------------- requests
\* GeoFilterModel.bounding_box of the builder's geo filter (load_area)
BoundingBox == BoundingBoxOf(LoadArea)

CDS_NWP_PARAMETERS ==
    <<"2m_temperature", "total_precipitation",
      "10m_u_component_of_wind", "10m_v_component_of_wind">>
DEFAULT_MONTHS == [t \in 1..12 |-> t]
DEFAULT_DAYS == [t \in 1..31 |-> t]
DEFAULT_TIMES == [t \in 1..24 |-> t - 1]

OD_NWP_PARAMETERS == <<"2t", "tp", "10u", "10v">>
FORECAST_STEPS == [i \in 1..31 |-> 3 * (i - 1)]
RunTime == <<0, 6, 12, 18>>

Builders == {"cds", "open_data"}

\* the data sources plus the request builder of the test suite
TestBuilders == Builders \cup {"mock"}

\* run_date.strftime("%Y%m%d"): the eight digits, read as a number
StrftimeYmd(d) == d.year * 10000 + d.month * 100 + d.day

\* ECMWFCDSRequestBuilder.build_default_requests
BuildDefaultRequestsCDS(run_date) ==
    << [dataset |-> "reanalysis-era5-single-levels",
        years |-> <<run_date.year>>,
        months |-> DEFAULT_MONTHS,
        days |-> DEFAULT_DAYS,
        times |-> DEFAULT_TIMES,
        nwp_parameters |-> CDS_NWP_PARAMETERS,
        product_type |-> "reanalysis",
        area |-> BoundingBox] >>

\* variant of the open-data builder: the enfo/pf pair is requested as well
BuildDefaultRequestsOpenData_WithEnfo(run_date) ==
    [k \in 1..(2 * Len(RunTime)) |->
        [run_date |-> run_date,
         run_time |-> RunTime[((k - 1) % Len(RunTime)) + 1],
         stream |-> IF k <= Len(RunTime) THEN "oper" ELSE "enfo",
         request_type |-> IF k <= Len(RunTime) THEN "fc" ELSE "pf",
         nwp_parameters |-> OD_NWP_PARAMETERS,
         forecast_steps |-> FORECAST_STEPS,
         update_raw |-> FALSE,
         normalise_data |-> FALSE] ]

\* ECMWFOpenDataRequestBuilder.build_default_requests
BuildDefaultRequestsOpenData(run_date) ==
    [k \in 1..Len(RunTime) |->
        [run_date |-> run_date,
         run_time |-> RunTime[k],
         stream |-> "oper",
         request_type |-> "fc",
         nwp_parameters |-> OD_NWP_PARAMETERS,
         forecast_steps |-> FORECAST_STEPS,
         update_raw |-> FALSE,
         normalise_data |-> FALSE] ]

\* tests: mock_request_builder returns [MockRequest(run_date)]
BuildDefaultRequestsMock(run_date) ==
    << [file_name |-> StrftimeYmd(run_date)] >>

BuilderBuildDefaultRequests(b, run_date) ==
    IF b = "cds" THEN BuildDefaultRequestsCDS(run_date)
    ELSE IF b = "open_data" THEN BuildDefaultRequestsOpenData(run_date)
    ELSE BuildDefaultRequestsMock(run_date)

\* ECMWFCDSRequest.serialize_area: the WKT of the box geometry
SerializeArea(area) == <<area.west, area.south, area.east, area.north>>

\* ECMWFCDSRequest.model_dump_json: every field, in declaration order
ModelDumpJson(r) ==
    <<r.dataset, r.years, r.months, r.days, r.times, r.nwp_parameters,
      r.product_type, SerializeArea(r.area)>>

\* hashlib.sha1(...).hexdigest(): a digest determined by its input
Sha1(s) == <<"sha1", s>>

\* ECMWFCDSRequest.file_name
FileNameCDS(r) == <<r.dataset, Sha1(ModelDumpJson(r))>>

\* ECMWFOpenDataRequest.file_name
FileNameOpenData(r) ==
    <<r.stream,
      <<StrftimeYmd(r.run_date), r.run_time, r.forecast_steps[1],
        r.forecast_steps[Len(r.forecast_steps)], r.request_type>> >>

FileName(b, r) ==
    IF b = "cds" THEN FileNameCDS(r)
    ELSE IF b = "open_data" THEN FileNameOpenData(r)
    ELSE r.file_name

\* variant of the raw extension: every fetcher writes .grib2
RawExtension_Grib2(b) == "grib2"

RawExtension(b) == IF b = "cds" THEN "grib" ELSE "grib2"

\* raw_dir / f"{request.file_name}.<ext>"
RawPath(b, r) == <<"raw_dir", FileName(b, r), RawExtension(b)>>

\* variant of the artifact path: built under raw_dir
ArtifactPath_RawDir(file_name) == <<"raw_dir", file_name, "parquet">>

\* processed_dir / f"{file_name}.parquet"
ArtifactPath(file_name) == <<"processed_dir", file_name, "parquet">>

\* ------------------------------------------- _build_default_requests
RECURSIVE Flatten(_)
Flatten(ss) == IF ss = <<>> THEN <<>> ELSE Head(ss) \o Flatten(Tail(ss))

\* range(date_offset) is empty for date_offset <= 0
AllRunDateOffsets(date_offset, offset_frequency) ==
    [i \in 1..date_offset |-> DateOffset(offset_frequency, i - 1)]

BuildRaises(date_offset, offset_frequency) ==
    \E i \in 1..date_offset :
        AllRunDateOffsets(date_offset, offset_frequency)[i].raised

\* variant of the first comprehension: i runs over 1..date_offset
AllRunDates_FromOne(s, n, f) ==
    [i \in 1..n |-> AddOffset(s, DateOffset(f, i))]

\* the first comprehension: one run date per i in range(date_offset)
AllRunDates(s, n, f) ==
    LET offs == AllRunDateOffsets(n, f)
    IN [i \in 1..n |-> AddOffset(s, offs[i])]

\* variant of the flattening: only the first request of each date is kept
BuildDefaultRequests_FirstOfEach(b, s, n, f) ==
    LET run_dates == AllRunDates(s, n, f)
        per_date == [i \in 1..n |->
                        SubSeq(BuilderBuildDefaultRequests(b, run_dates[i]), 1, 1)]
    IN Flatten(per_date)

\* _build_default_requests: the per-date lists, flattened
BuildDefaultRequests(b, s, n, f) ==
    LET run_dates == AllRunDates(s, n, f)
        per_date == [i \in 1..n |->
                        BuilderBuildDefaultRequests(b, run_dates[i])]
    IN Flatten(per_date)

\* ------------------------------------------------------------- LocalClient
RECURSIVE SumSeq(_)
SumSeq(s) == IF s = <<>> THEN 0 ELSE Head(s) + SumSeq(Tail(s))

\* LocalClient.exists
Exists(files, path) == files[path] # NoFile

\* path.stat().st_size for a file, the sum over path.glob("**/*") otherwise
TotalSize(entry) ==
    IF entry.kind = "file" THEN entry.sizes[1] ELSE SumSeq(entry.sizes)

\* variant of is_valid: a size equal to the threshold counts as valid
IsValid_AtLeast(files, path, min_size_bytes) ==
    IF Exists(files, path)
    THEN TotalSize(files[path]) >= min_size_bytes
    ELSE FALSE

\* LocalClient.is_valid
IsValid(files, path, min_size_bytes) ==
    IF Exists(files, path)
    THEN TotalSize(files[path]) > min_size_bytes
    ELSE FALSE

\* variant of delete: a missing path is not an error
DeleteOutcome_MissingOk(files, path) ==
    IF ~Exists(files, path) THEN "unlink"
    ELSE IF files[path].kind = "file" THEN "unlink"
    ELSE IF files[path].kind = "dir" THEN "rmtree"
    ELSE "ValueError"

\* LocalClient.delete: which branch is taken
DeleteOutcome(files, path) ==
    IF ~Exists(files, path) THEN "FileNotFoundError"
    ELSE IF files[path].kind = "file" THEN "unlink"
    ELSE IF files[path].kind = "dir" THEN "rmtree"
    ELSE "ValueError"

\* LocalClient.delete: the store it leaves (path.unlink / shutil.rmtree)
Delete(files, path) ==
    IF DeleteOutcome(files, path) \in {"unlink", "rmtree"}
    THEN [files EXCEPT ![path] = NoFile]
    ELSE files

\* LocalClient.delete: the exception it raises, "none" when it returns
DeleteRaised(files, path) ==
    IF DeleteOutcome(files, path) \in {"unlink", "rmtree"}
    THEN "none"
    ELSE DeleteOutcome(files, path)

\* the part files a directory holds: sizes by part number, 0 for a number
\* whose file is missing or was opened for writing and not filled (a write
\* that stops leaves fewer bytes than the part has)
PartFiles(files, destination_path) ==
    IF files[destination_path].kind = "dir"
    THEN files[destination_path].sizes
    ELSE <<>>

\* LocalClient.store, ddf.to_parquet(destination_path): the directory is
\* created when it is missing; what an existing one holds is kept
MakeDirs(files, destination_path) ==
    [files EXCEPT ![destination_path] =
        [kind |-> "dir", sizes |-> PartFiles(files, destination_path)]]

\* ddf.to_parquet, the task of partition k: part file k holds size bytes
\* (0 once it is opened for writing, its final size once it is closed); the
\* other part files are left as they are
WritePart(files, destination_path, k, size) ==
    LET old == PartFiles(files, destination_path)
        n == IF k >= Len(old) THEN k ELSE Len(old)
    IN [files EXCEPT ![destination_path] =
          [kind |-> "dir",
           sizes |-> [j \in 1..n |->
                        IF j = k THEN size
                        ELSE IF j <= Len(old) THEN old[j] ELSE 0]]]

\* what a store call that raises leaves: the part files in complete are
\* written, those in opened were opened for writing and not filled, the
\* others are as before
StoreLeaves(files, parts, destination_path, complete, opened) ==
    LET old == PartFiles(files, destination_path)
        touched == complete \cup opened
        n == IF \E k \in touched : k > Len(old)
             THEN CHOOSE k \in touched : \A j \in touched : j <= k
             ELSE Len(old)
    IN [files EXCEPT ![destination_path] =
          [kind |-> "dir",
           sizes |-> [j \in 1..n |->
                        IF j \in complete THEN parts[j]
                        ELSE IF j \in opened THEN 0
                        ELSE IF j <= Len(old) THEN old[j] ELSE 0]]]

\* LocalClient.store that returns: ddf.to_parquet(destination_path,
\* write_index=False) has written one part file per partition (parts: their
\* sizes); part files of an earlier write with a higher number stay
StoreWrite(files, parts, destination_path) ==
    LET old == PartFiles(files, destination_path)
        n == IF Len(parts) >= Len(old) THEN Len(parts) ELSE Len(old)
    IN [files EXCEPT ![destination_path] =
          [kind |-> "dir",
           sizes |-> [k \in 1..n |->
                        IF k <= Len(parts) THEN parts[k] ELSE old[k]]]]

StoreReturnValue(destination_path) == destination_path

\* Part-file sizes a transformed dataset can serialise to: a total at the
\* validity threshold and a total just above it.
DatasetParts ==
    { <<MIN_VALID_SIZE_BYTES>>, <<MIN_VALID_SIZE_BYTES, 1>> }

\* the part numbers a dataset's write can name
PartNumbers == UNION {DOMAIN parts : parts \in DatasetParts}

\* What processed_dir holds at an artifact path before the first run: nothing,
\* or a complete artifact (smaller ones are left behind by the runs themselves).
InitialEntries ==
    { NoFile, [kind |-> "dir", sizes |-> <<MIN_VALID_SIZE_BYTES, 1>>] }

\* ------------------------------------------------------------------- state
VARIABLES
    request_builder,    \* which BaseRequestBuilder the service was given
    start,              \* CLI start date
    date_offset,        \* CLI offset count
    offset_frequency,   \* CLI offset unit
    n_workers,          \* LocalCluster n_workers
    threads_per_worker, \* LocalCluster threads_per_worker
    scheduler,          \* download_datasets scheduler ("None": the default)
    fs,                 \* processed_dir: artifact path -> entry or NoFile
    run,                \* number of the current download_datasets call
    pc,                 \* position of download_datasets
    all_requests,       \* list built by _build_default_requests
    is_valid_ret,       \* per request: what storer.is_valid returned
    is_valid_path,      \* per request: the path storer.is_valid was given
    all_new_requests,   \* positions (in all_requests) kept by the filter
    pipeline,           \* "none" or "built" (the dask bag)
    partitions,         \* the bag's partitions (positions in all_requests)
    stage,              \* per request: stage of its pipeline
    raw_path,           \* per request: what download_raw_file returned
    processed,          \* per request: what transform returned
    written,            \* per request: what store returned
    storing,            \* per request: progress of its running store call
    fetching,           \* per request: what its running download_raw_file call met
    isValidCalls,       \* per request: number of is_valid calls
    fetchCalls,         \* per request: number of download_raw_file calls
    transformCalls,     \* per request: number of transform calls
    storeCalls,         \* per request: number of store calls
    processed_files,    \* the list returned by download_datasets
    prev_stored,        \* requests whose store call returned in the previous run
    prev_skipped,       \* requests the previous run's filter skipped
    fs_prev,            \* fs as the previous run left it
    all_run_dates,      \* _build_default_requests: the run dates it computed
    builder_calls,      \* run_date of each build_default_requests call, in order
    builder_rets,       \* the list each build_default_requests call returned
    file_names,         \* file_name computed for each request
    storer_call,        \* the last LocalClient call and its outcome
    raw_files,          \* raw_dir: raw destination path -> entry or NoFile
    fetcher_call,       \* the download_raw_file call in progress or last ended
    geo_filter,         \* the GeoFilterModel of the request builder
    geo_selected,       \* the GeoFilterModel returned by filter_iso3s
    bounds_ret,         \* the last value read from a bounds property
    transform_tasks     \* per task: its processor.transform call

inputs ==
    <<request_builder, start, date_offset, offset_frequency,
      n_workers, threads_per_worker, scheduler>>

calls == <<isValidCalls, fetchCalls, transformCalls, storeCalls>>

history == <<prev_stored, prev_skipped, fs_prev>>

build_trace == <<all_run_dates, builder_calls, builder_rets>>

fetcher_state == <<raw_files, fetcher_call>>

geo_state == <<geo_filter, geo_selected, bounds_ret, transform_tasks>>

\* the service's own state, the store apart
service_state ==
    <<inputs, run, pc, all_requests, is_valid_ret, is_valid_path,
      all_new_requests, pipeline,
      partitions, stage, raw_path, processed, written, storing, fetching, calls,
      processed_files, history, build_trace>>

\* state of the collaborators when they are exercised on their own
components == <<file_names, storer_call, fetcher_state, geo_state>>

vars ==
    <<inputs, fs, run, pc, all_requests, is_valid_ret, is_valid_path,
      all_new_requests,
      pipeline, partitions, stage, raw_path, processed, written, storing, fetching,
      calls, processed_files, history, build_trace, components>>

\* ---------------------------------------------------------------- helpers
Positions == 1..Len(all_requests)

FileNameOf(i) == FileName(request_builder, all_requests[i])

PathOf(i) == ArtifactPath(FileNameOf(i))

RawPathOf(i) == RawPath(request_builder, all_requests[i])

InFlightStages == {"fetching", "transforming", "storing"}

InFlight == {i \in Positions : stage[i] \in InFlightStages}

\* load_cluster: LocalCluster(n_workers, threads_per_worker) gives the run
\* n_workers * threads_per_worker task slots
PoolSize(workers, threads) == workers * threads

RangeOf(s) == {s[k] : k \in 1..Len(s)}

RECURSIVE PartitionAll(_, _)
PartitionAll(n, seq) ==
    IF seq = <<>> THEN <<>>
    ELSE IF Len(seq) <= n THEN <<seq>>
    ELSE <<SubSeq(seq, 1, n)>> \o PartitionAll(n, SubSeq(seq, n + 1, Len(seq)))

\* dask.bag.from_sequence(seq, npartitions=npartitions), called with a
\* non-empty seq
FromSequence(seq, npartitions) ==
    LET partition_size ==
            IF Len(seq) <= 100
            THEN (Len(seq) + npartitions - 1) \div npartitions
            ELSE IF Len(seq) \div npartitions < 1 THEN 1
                 ELSE Len(seq) \div npartitions
    IN PartitionAll(partition_size, seq)

\* _process_requests: npartitions=len(all_new_requests)
Npartitions(new_requests) == Len(new_requests)

\* variant of the bag's filter: failed downloads are not filtered out
DownloadFilter_KeepAll(raw_path_request) == TRUE

\* _build_dask_pipeline: .filter(lambda raw_path_request: raw_path_request[0] is not None)
DownloadFilter(raw_path_request) == raw_path_request[1] # None

\* variant of the dedup filter: the negation is missing
KeepAsNew_NoNegation(files, path) == IsValid(files, path, MIN_VALID_SIZE_BYTES)

\* _filter_new_requests: keep t iff not storer.is_valid(path of t)
KeepAsNew(files, path) == ~IsValid(files, path, MIN_VALID_SIZE_BYTES)

\* position of request i in the bag
PartOf(i) == CHOOSE t \in 1..Len(partitions) : i \in RangeOf(partitions[t])

IndexIn(p, i) == CHOOSE k \in 1..Len(p) : p[k] = i

\* the element the partition's iterator pulls after i (0: exhausted)
NextInPart(i) ==
    LET p == partitions[PartOf(i)]
        k == IndexIn(p, i)
    IN IF k < Len(p) THEN p[k + 1] ELSE 0

TaskPending(t) == \A i \in RangeOf(partitions[t]) : stage[i] = "pending"

\* the requests whose partition task holds a worker thread: the task runs
\* _download, _process and _store on it up to to_parquet's compute, where it
\* gives the thread up (distributed: Client.get, secede) until the part files
\* are written
OnThread == {i \in Positions :
                \/ stage[i] \in {"fetching", "transforming"}
                \/ stage[i] = "storing" /\ ~storing[i].begun}

\* the part-writing tasks of to_parquet that are on a worker thread
OpenParts ==
    {<<i, k>> \in Positions \X PartNumbers :
        /\ stage[i] = "storing"
        /\ k \in DOMAIN storing[i].part
        /\ storing[i].part[k] = "open"}

\* worker threads in use
BusyThreads == Cardinality(OnThread) + Cardinality(OpenParts)

\* element i leaves the partition's iterator in stage st; the iterator
\* pulls the next element, which starts with its download
StageAfter(i, st) ==
    LET n == NextInPart(i)
    IN IF n = 0 THEN [stage EXCEPT ![i] = st]
       ELSE [stage EXCEPT ![i] = st, ![n] = "fetching"]

FetchCallsAfter(i) ==
    LET n == NextInPart(i)
    IN IF n = 0 THEN fetchCalls
       ELSE [fetchCalls EXCEPT ![n] = @ + 1]

\* what one partition contributes to the computed list
RECURSIVE PartitionOutput(_)
PartitionOutput(p) ==
    IF p = <<>> THEN <<>>
    ELSE (IF stage[Head(p)] = "stored" THEN <<written[Head(p)]>> ELSE <<>>)
         \o PartitionOutput(Tail(p))

RECURSIVE BagOutput(_)
BagOutput(ps) ==
    IF ps = <<>> THEN <<>>
    ELSE PartitionOutput(Head(ps)) \o BagOutput(Tail(ps))

\* download_datasets, "Download datasets: END":
\* count_failed_files=len(all_new_requests) - len(processed_files)
CountFailedFiles(new_requests, files) == Len(new_requests) - Len(files)

Idle(n) == [i \in 1..n |-> "idle"]
Zeros(n) == [i \in 1..n |-> 0]
Nones(n) == [i \in 1..n |-> None]
\* a request whose store call has not begun
NoStoring == [begun |-> FALSE, parts |-> <<>>, part |-> <<>>]
\* a request whose download_raw_file call has met no other call
NoFetching == [unlinked |-> FALSE, exposed |-> FALSE]

\* no dataset yet
NoDataset == [ddf |-> [raw_path |-> None], file_name |-> None]

\* -------------------------------------------------------------------- Init
RequestCount(b, s, n, f) ==
    IF BuildRaises(n, f) THEN 0 ELSE Len(BuildDefaultRequests(b, s, n, f))

\* --n-workers / --threads-per-worker given on the command line
Clusters ==
    { [n_workers |-> 1, threads_per_worker |-> 1],
      [n_workers |-> 2, threads_per_worker |-> 1],
      [n_workers |-> 1, threads_per_worker |-> 2] }

ReplayClusters == { [n_workers |-> 1, threads_per_worker |-> 1] }

LiveClusters == { [n_workers |-> 1, threads_per_worker |-> 2] }

LiveStartDates == { [year |-> 2022, month |-> 1, day |-> 1] }

AllPaths(b, s, n, f) ==
    IF BuildRaises(n, f) THEN {}
    ELSE LET rs == BuildDefaultRequests(b, s, n, f)
         IN {ArtifactPath(FileName(b, rs[i])) : i \in 1..Len(rs)}

\* no LocalClient call made yet
NoStorerCall ==
    [op |-> "none", path |-> None, min_size_bytes |-> 0, ret |-> None,
     raised |-> "none", before |-> <<>>]

\* no download_raw_file call made yet
NoFetcherCall == [calls |-> 0, last |-> <<>>, threads |-> <<>>]

\* nothing of a run exists yet
PipelineLocalsIdle ==
    /\ run = 1
    /\ is_valid_ret = <<>>
    /\ is_valid_path = <<>>
    /\ all_new_requests = <<>>
    /\ pipeline = "none"
    /\ partitions = <<>>
    /\ stage = <<>>
    /\ raw_path = <<>>
    /\ processed = <<>>
    /\ written = <<>>
    /\ storing = <<>>
    /\ fetching = <<>>
    /\ isValidCalls = <<>>
    /\ fetchCalls = <<>>
    /\ transformCalls = <<>>
    /\ storeCalls = <<>>
    /\ processed_files = <<>>
    /\ prev_stored = {}
    /\ prev_skipped = {}
    /\ all_run_dates = <<>>
    /\ builder_calls = <<>>
    /\ builder_rets = <<>>

\* download_datasets has not been entered
PipelineIdle ==
    /\ pc = "start"
    /\ all_requests = <<>>
    /\ PipelineLocalsIdle

\* the collaborators as the command line leaves them: the ENTSO-E geo filter
\* on the builder, no call made on the fetcher or the store
ComponentsIdle ==
    /\ file_names = <<>>
    /\ storer_call = NoStorerCall
    /\ raw_files = <<>>
    /\ fetcher_call = NoFetcherCall
    /\ geo_filter = LoadArea
    /\ geo_selected = NoGeoFilter
    /\ bounds_ret = NoBounds
    /\ transform_tasks = <<>>

InitWith(builders, starts, clusters, max_date_offset, max_requests) ==
    /\ request_builder \in builders
    /\ start \in starts
    /\ date_offset \in 0..max_date_offset
    /\ offset_frequency \in OffsetFrequency
    /\ RequestCount(request_builder, start, date_offset, offset_frequency)
            <= max_requests
    /\ \E c \in clusters :
          /\ n_workers = c.n_workers
          /\ threads_per_worker = c.threads_per_worker
          /\ scheduler = "None"
    /\ fs \in [AllPaths(request_builder, start, date_offset, offset_frequency)
                -> InitialEntries]
    /\ pc = "load"
    /\ all_requests = <<>>
    /\ PipelineLocalsIdle
    /\ fs_prev = fs
    /\ ComponentsIdle

\* one invocation of the command, with either data source
Init == InitWith(Builders, StartDates, Clusters, MaxDateOffset, MaxRequests)

\* the first of several invocations with the same arguments
InitReplay ==
    InitWith({"cds"}, StartDates, ReplayClusters, MaxReplayDateOffset,
             MaxReplayDateOffset)

\* ----------------------------------------------------------------- actions
\* main.load_source: ECMWFCDSRequestBuilder(geo_filter=geo_filter) is
\* constructed; ECMWFOpenDataRequestBuilder(geo_filter=geo_filter) raises
\* TypeError, its __init__(self) taking no geo_filter
LoadSourceOutcome(source) ==
    IF source = "open_data" THEN "TypeError" ELSE "ok"

\* main.download_datasets: load_source returns, the service is constructed
\* and service.download_datasets is called
LoadSource ==
    /\ pc = "load"
    /\ LoadSourceOutcome(request_builder) = "ok"
    /\ pc' = "start"
    /\ UNCHANGED <<components, build_trace, is_valid_path, inputs, fs, run,
                   all_requests, is_valid_ret, all_new_requests, pipeline,
                   partitions, stage, raw_path, processed, written, storing, fetching,
                   calls, processed_files, history>>

\* main.download_datasets: load_source raises and the command ends before
\* a service exists
LoadSourceRaises ==
    /\ pc = "load"
    /\ LoadSourceOutcome(request_builder) # "ok"
    /\ pc' = "type_error"
    /\ UNCHANGED <<components, build_trace, is_valid_path, inputs, fs, run,
                   all_requests, is_valid_ret, all_new_requests, pipeline,
                   partitions, stage, raw_path, processed, written, storing, fetching,
                   calls, processed_files, history>>

\* download_datasets, lines 169-173: _build_default_requests returns
BuildRequests ==
    /\ pc = "start"
    /\ ~BuildRaises(date_offset, offset_frequency)
    /\ LET rs == BuildDefaultRequests(request_builder, start, date_offset,
                                      offset_frequency)
       IN /\ all_requests' = rs
          /\ is_valid_ret' = [i \in 1..Len(rs) |-> FALSE]
          /\ is_valid_path' = Nones(Len(rs))
          /\ stage' = Idle(Len(rs))
          /\ raw_path' = Nones(Len(rs))
          /\ processed' = [i \in 1..Len(rs) |-> NoDataset]
          /\ written' = Nones(Len(rs))
          /\ storing' = [i \in 1..Len(rs) |-> NoStoring]
          /\ fetching' = [i \in 1..Len(rs) |-> NoFetching]
          /\ isValidCalls' = Zeros(Len(rs))
          /\ fetchCalls' = Zeros(Len(rs))
          /\ transformCalls' = Zeros(Len(rs))
          /\ storeCalls' = Zeros(Len(rs))
    /\ all_run_dates' = AllRunDates(start, date_offset, offset_frequency)
    /\ builder_calls' = AllRunDates(start, date_offset, offset_frequency)
    /\ builder_rets' =
          [k \in 1..Len(AllRunDates(start, date_offset, offset_frequency)) |->
              BuilderBuildDefaultRequests(
                  request_builder,
                  AllRunDates(start, date_offset, offset_frequency)[k])]
    /\ pc' = "filter"
    /\ UNCHANGED <<components, inputs, fs, run, all_new_requests, pipeline,
                   partitions, processed_files, history>>

\* download_datasets, lines 169-173: _date_offset raises NotImplementedError
BuildRequestsRaises ==
    /\ pc = "start"
    /\ BuildRaises(date_offset, offset_frequency)
    /\ pc' = "config_error"
    /\ UNCHANGED <<components, build_trace, is_valid_path, inputs, fs, run, all_requests, is_valid_ret,
                   all_new_requests, pipeline, partitions, stage, raw_path,
                   processed, written, storing, fetching, calls, processed_files, history>>

\* download_datasets, line 176: _filter_new_requests
FilterNewRequests ==
    /\ pc = "filter"
    /\ LET keep(i) == KeepAsNew(fs, PathOf(i))
       IN /\ all_new_requests' =
                SelectSeq([i \in 1..Len(all_requests) |-> i], keep)
          /\ is_valid_ret' =
                [i \in Positions |-> IsValid(fs, PathOf(i), MIN_VALID_SIZE_BYTES)]
    /\ is_valid_path' = [i \in Positions |-> PathOf(i)]
    /\ isValidCalls' = [i \in Positions |-> isValidCalls[i] + 1]
    /\ pc' = "process"
    /\ UNCHANGED <<components, build_trace, inputs, fs, run, all_requests, pipeline, partitions, stage,
                   raw_path, processed, written, storing, fetching, fetchCalls, transformCalls,
                   storeCalls, processed_files, history>>

\* _process_requests, lines 140-147 (and 149-151 when there is no pipeline)
ProcessRequests ==
    /\ pc = "process"
    /\ IF Len(all_new_requests) > 0
       THEN /\ pipeline' = "built"
            /\ partitions' = FromSequence(all_new_requests,
                                          Npartitions(all_new_requests))
            /\ stage' = [i \in Positions |->
                            IF i \in RangeOf(all_new_requests)
                            THEN "pending" ELSE stage[i]]
            /\ pc' = "compute"
            /\ UNCHANGED processed_files
       ELSE /\ processed_files' = <<>>
            /\ pc' = "done"
            /\ UNCHANGED <<pipeline, partitions, stage>>
    /\ UNCHANGED <<components, build_trace, is_valid_path, inputs, fs, run, all_requests, is_valid_ret,
                   all_new_requests, raw_path, processed, written, storing, fetching, calls,
                   history>>

\* fetcher.download_raw_file: the raw destination path, or None when the
\* retrieval failed
DownloadRawFile(i, ok) ==
    IF ok THEN RawPath(request_builder, all_requests[i]) ELSE None

\* the scheduler hands partition t to a free worker thread, which pulls the
\* first element through _download
StartTask(t) ==
    /\ pc = "compute"
    /\ t \in 1..Len(partitions)
    /\ TaskPending(t)
    /\ BusyThreads < PoolSize(n_workers, threads_per_worker)
    /\ LET i == partitions[t][1]
       IN /\ stage' = [stage EXCEPT ![i] = "fetching"]
          /\ fetchCalls' = [fetchCalls EXCEPT ![i] = @ + 1]
    /\ UNCHANGED <<components, build_trace, is_valid_path, inputs, fs, run, pc, all_requests, is_valid_ret,
                   all_new_requests, pipeline, partitions, raw_path, processed,
                   written, storing, fetching, isValidCalls, transformCalls, storeCalls,
                   processed_files, history>>

\* _download returns (raw_path, request); the bag's filter drops the element
\* or hands it to _process, which calls processor.transform
FetchReturns(i, ok) ==
    /\ pc = "compute"
    /\ i \in Positions
    /\ stage[i] = "fetching"
    /\ fetching[i].unlinked => ~ok
    /\ fetching' = [fetching EXCEPT ![i] = NoFetching]
    /\ raw_path' = [raw_path EXCEPT ![i] = DownloadRawFile(i, ok)]
    /\ IF DownloadFilter(<<DownloadRawFile(i, ok), i>>)
       THEN /\ stage' = [stage EXCEPT ![i] = "transforming"]
            /\ transformCalls' = [transformCalls EXCEPT ![i] = @ + 1]
            /\ UNCHANGED fetchCalls
       ELSE /\ stage' = StageAfter(i, "dropped")
            /\ fetchCalls' = FetchCallsAfter(i)
            /\ UNCHANGED transformCalls
    /\ UNCHANGED <<components, build_trace, is_valid_path, inputs, fs, run, pc, all_requests, is_valid_ret,
                   all_new_requests, pipeline, partitions, processed, written, storing,
                   isValidCalls, storeCalls, processed_files, history>>

\* download_raw_file of request j, except branch: its retrieve failed and it
\* removes the raw file (is_file, unlink) while the call of another request
\* with the same raw path is running, which then may find the file gone
\* between its own exists or is_file and the stat or unlink that follows
FetchUnlinks(j) ==
    /\ pc = "compute"
    /\ j \in Positions
    /\ stage[j] = "fetching"
    /\ ~fetching[j].unlinked
    /\ \E i \in Positions \ {j} : /\ stage[i] = "fetching"
                                  /\ RawPathOf(i) = RawPathOf(j)
    /\ fetching' = [i \in Positions |->
                       IF i = j THEN [fetching[i] EXCEPT !.unlinked = TRUE]
                       ELSE IF /\ stage[i] = "fetching"
                               /\ RawPathOf(i) = RawPathOf(j)
                            THEN [fetching[i] EXCEPT !.exposed = TRUE]
                            ELSE fetching[i]]
    /\ UNCHANGED <<components, build_trace, is_valid_path, inputs, fs, run, pc,
                   all_requests, is_valid_ret, all_new_requests, pipeline,
                   partitions, stage, raw_path, processed, written, storing,
                   calls, processed_files, history>>

\* _download lets the exception of download_raw_file through
\* (FileNotFoundError of stat or unlink on a raw file another call removed):
\* the partition's task fails before processor.transform is called
FetchRaises(i) ==
    /\ pc = "compute"
    /\ i \in Positions
    /\ stage[i] = "fetching"
    /\ fetching[i].exposed
    /\ ~fetching[i].unlinked
    /\ stage' = [stage EXCEPT ![i] = "failed"]
    /\ fetching' = [fetching EXCEPT ![i] = NoFetching]
    /\ UNCHANGED <<components, build_trace, is_valid_path, inputs, fs, run, pc,
                   all_requests, is_valid_ret, all_new_requests, pipeline,
                   partitions, raw_path, processed, written, storing,
                   calls, processed_files, history>>

\* processor.transform returns a dataset; _process returns
\* (processed, request.file_name) and _store calls storer.store
TransformReturns(i) ==
    /\ pc = "compute"
    /\ i \in Positions
    /\ stage[i] = "transforming"
    /\ processed' = [processed EXCEPT ![i] =
                        [ddf |-> [raw_path |-> raw_path[i]],
                         file_name |-> FileNameOf(i)]]
    /\ stage' = [stage EXCEPT ![i] = "storing"]
    /\ storeCalls' = [storeCalls EXCEPT ![i] = @ + 1]
    /\ UNCHANGED <<components, build_trace, is_valid_path, inputs, fs, run, pc, all_requests, is_valid_ret,
                   all_new_requests, pipeline, partitions, raw_path, written, storing, fetching,
                   isValidCalls, fetchCalls, transformCalls, processed_files,
                   history>>

\* processor.transform raises: the partition's task fails
TransformRaises(i) ==
    /\ pc = "compute"
    /\ i \in Positions
    /\ stage[i] = "transforming"
    /\ stage' = [stage EXCEPT ![i] = "failed"]
    /\ UNCHANGED <<components, build_trace, is_valid_path, inputs, fs, run, pc, all_requests, is_valid_ret,
                   all_new_requests, pipeline, partitions, raw_path, processed,
                   written, storing, fetching, calls, processed_files, history>>

\* storer.store, lines 34-35: the destination directory exists once
\* to_parquet has set up the write of the dataset (parts: the sizes its
\* partitions serialise to), one task per part file; the calling task gives
\* its worker thread up while they run
StoreMakesDir(i, parts) ==
    /\ pc = "compute"
    /\ i \in Positions
    /\ stage[i] = "storing"
    /\ ~storing[i].begun
    /\ parts \in DatasetParts
    /\ fs' = MakeDirs(fs, ArtifactPath(processed[i].file_name))
    /\ storing' = [storing EXCEPT ![i] =
                      [begun |-> TRUE, parts |-> parts,
                       part |-> [k \in DOMAIN parts |-> "todo"]]]
    /\ UNCHANGED <<components, build_trace, is_valid_path, inputs, run, pc,
                   all_requests, is_valid_ret, all_new_requests, pipeline,
                   partitions, stage, raw_path, processed, written, fetching,
                   calls, processed_files, history>>

\* to_parquet, the task of part k gets a free worker thread and opens its
\* part file for writing: the file exists and is empty.  The tasks of a
\* dataset start in any order.
StorePartOpens(i, k) ==
    /\ pc = "compute"
    /\ i \in Positions
    /\ stage[i] = "storing"
    /\ storing[i].begun
    /\ k \in DOMAIN storing[i].part
    /\ storing[i].part[k] = "todo"
    /\ BusyThreads < PoolSize(n_workers, threads_per_worker)
    /\ fs' = WritePart(fs, ArtifactPath(processed[i].file_name), k, 0)
    /\ storing' = [storing EXCEPT ![i].part[k] = "open"]
    /\ UNCHANGED <<components, build_trace, is_valid_path, inputs, run, pc,
                   all_requests, is_valid_ret, all_new_requests, pipeline,
                   partitions, stage, raw_path, processed, written, fetching,
                   calls, processed_files, history>>

\* to_parquet, the task of part k has written its partition and closed the
\* part file; its worker thread is free again
StorePartWritten(i, k) ==
    /\ pc = "compute"
    /\ i \in Positions
    /\ stage[i] = "storing"
    /\ storing[i].begun
    /\ k \in DOMAIN storing[i].part
    /\ storing[i].part[k] = "open"
    /\ fs' = WritePart(fs, ArtifactPath(processed[i].file_name), k,
                       storing[i].parts[k])
    /\ storing' = [storing EXCEPT ![i].part[k] = "done"]
    /\ UNCHANGED <<components, build_trace, is_valid_path, inputs, run, pc,
                   all_requests, is_valid_ret, all_new_requests, pipeline,
                   partitions, stage, raw_path, processed, written, fetching,
                   calls, processed_files, history>>

\* every part is written: the calling task takes a worker thread again
\* (rejoin) and storer.store returns the destination path
StoreReturns(i) ==
    /\ pc = "compute"
    /\ i \in Positions
    /\ stage[i] = "storing"
    /\ storing[i].begun
    /\ \A k \in DOMAIN storing[i].part : storing[i].part[k] = "done"
    /\ BusyThreads < PoolSize(n_workers, threads_per_worker)
    /\ written' = [written EXCEPT ![i] =
                      StoreReturnValue(ArtifactPath(processed[i].file_name))]
    /\ stage' = StageAfter(i, "stored")
    /\ storing' = [storing EXCEPT ![i] = NoStoring]
    /\ fetchCalls' = FetchCallsAfter(i)
    /\ UNCHANGED <<components, build_trace, is_valid_path, inputs, fs, run, pc,
                   all_requests, is_valid_ret, all_new_requests, pipeline,
                   partitions, raw_path, processed, fetching, isValidCalls,
                   transformCalls, storeCalls, processed_files, history>>

\* storer.store raises, before the directory exists or with part files
\* missing, empty or written: the partition's task fails and what the
\* directory holds stays
StoreRaises(i) ==
    /\ pc = "compute"
    /\ i \in Positions
    /\ stage[i] = "storing"
    /\ stage' = [stage EXCEPT ![i] = "failed"]
    /\ storing' = [storing EXCEPT ![i] = NoStoring]
    /\ UNCHANGED <<components, build_trace, is_valid_path, inputs, fs, run, pc,
                   all_requests, is_valid_ret, all_new_requests, pipeline,
                   partitions, raw_path, processed, written, fetching, calls,
                   processed_files, history>>

\* variant of compute: it returns as soon as one partition is exhausted
ComputeDone_FirstPartition(new_requests, stages) ==
    \E i \in RangeOf(new_requests) : stages[i] \in {"stored", "dropped"}

\* pipeline.compute(scheduler=dask_scheduler) blocks until every partition
\* of the bag has been run to its end
ComputeDone(new_requests, stages) ==
    \A i \in RangeOf(new_requests) : stages[i] \in {"stored", "dropped"}

\* pipeline.compute returns once every partition is exhausted;
\* download_datasets returns processed_files
ComputeReturns ==
    /\ pc = "compute"
    /\ ComputeDone(all_new_requests, stage)
    /\ processed_files' = BagOutput(partitions)
    /\ pc' = "done"
    /\ UNCHANGED <<components, build_trace, is_valid_path, inputs, fs, run, all_requests, is_valid_ret,
                   all_new_requests, pipeline, partitions, stage, raw_path,
                   processed, written, storing, fetching, calls, history>>

\* pipeline.compute re-raises the exception of a failed task: no code of
\* _process_requests or download_datasets catches it.  Partitions that have
\* not started are never run; the steps a running partition still takes
\* before the process ends are those of the behaviours in which the
\* exception surfaces later.
ComputeRaises ==
    /\ pc = "compute"
    /\ \E i \in RangeOf(all_new_requests) : stage[i] = "failed"
    /\ pc' = "raised"
    /\ UNCHANGED <<components, build_trace, is_valid_path, inputs, fs, run, all_requests, is_valid_ret,
                   all_new_requests, pipeline, partitions, stage, raw_path,
                   processed, written, storing, fetching, calls, processed_files, history>>

\* the command is invoked again with the same arguments (main.py
\* download_datasets); whatever the previous process left running is gone
Rerun ==
    /\ pc \in {"done", "raised", "config_error", "type_error"}
    /\ run < MaxRuns
    /\ run' = run + 1
    /\ prev_stored' = {i \in Positions : stage[i] = "stored"}
    /\ prev_skipped' = {i \in Positions : is_valid_ret[i]}
    /\ fs_prev' = fs
    /\ pc' = "load"
    /\ all_requests' = <<>>
    /\ is_valid_ret' = <<>>
    /\ is_valid_path' = <<>>
    /\ all_new_requests' = <<>>
    /\ pipeline' = "none"
    /\ partitions' = <<>>
    /\ stage' = <<>>
    /\ raw_path' = <<>>
    /\ processed' = <<>>
    /\ written' = <<>>
    /\ storing' = <<>>
    /\ fetching' = <<>>
    /\ isValidCalls' = <<>>
    /\ fetchCalls' = <<>>
    /\ transformCalls' = <<>>
    /\ storeCalls' = <<>>
    /\ processed_files' = <<>>
    /\ all_run_dates' = <<>>
    /\ builder_calls' = <<>>
    /\ builder_rets' = <<>>
    /\ UNCHANGED <<components, inputs, fs>>

Next ==
    \/ LoadSource
    \/ LoadSourceRaises
    \/ BuildRequests
    \/ BuildRequestsRaises
    \/ FilterNewRequests
    \/ ProcessRequests
    \/ \E t \in 1..MaxRequests : StartTask(t)
    \/ \E i \in 1..MaxRequests : \E ok \in BOOLEAN : FetchReturns(i, ok)
    \/ \E j \in 1..MaxRequests : FetchUnlinks(j)
    \/ \E i \in 1..MaxRequests : FetchRaises(i)
    \/ \E i \in 1..MaxRequests : TransformReturns(i)
    \/ \E i \in 1..MaxRequests : TransformRaises(i)
    \/ \E i \in 1..MaxRequests : \E parts \in DatasetParts :
          StoreMakesDir(i, parts)
    \/ \E i \in 1..MaxRequests : \E k \in PartNumbers : StorePartOpens(i, k)
    \/ \E i \in 1..MaxRequests : \E k \in PartNumbers : StorePartWritten(i, k)
    \/ \E i \in 1..MaxRequests : StoreReturns(i)
    \/ \E i \in 1..MaxRequests : StoreRaises(i)
    \/ ComputeReturns
    \/ ComputeRaises

Spec == Init /\ [][Next]_vars

\* one invocation in which every collaborator call returns or raises and
\* the scheduler keeps handing pending partitions to free threads
InitLive ==
    InitWith(Builders, LiveStartDates, LiveClusters, MaxLiveDateOffset,
             MaxRequests)

SpecLive == InitLive /\ [][Next]_vars /\ WF_vars(Next)

\* the steps of a replayed invocation; its runs hold too few requests for two
\* download_raw_file calls to meet on one raw path (FetchUnlinks, FetchRaises)
NextReplay ==
    \/ LoadSource
    \/ BuildRequests
    \/ BuildRequestsRaises
    \/ FilterNewRequests
    \/ ProcessRequests
    \/ \E t \in 1..MaxReplayDateOffset : StartTask(t)
    \/ \E i \in 1..MaxReplayDateOffset : \E ok \in BOOLEAN : FetchReturns(i, ok)
    \/ \E i \in 1..MaxReplayDateOffset : TransformReturns(i)
    \/ \E i \in 1..MaxReplayDateOffset : TransformRaises(i)
    \/ \E i \in 1..MaxReplayDateOffset : \E parts \in DatasetParts :
          StoreMakesDir(i, parts)
    \/ \E i \in 1..MaxReplayDateOffset : \E k \in PartNumbers : StorePartOpens(i, k)
    \/ \E i \in 1..MaxReplayDateOffset : \E k \in PartNumbers : StorePartWritten(i, k)
    \/ \E i \in 1..MaxReplayDateOffset : StoreReturns(i)
    \/ \E i \in 1..MaxReplayDateOffset : StoreRaises(i)
    \/ ComputeReturns
    \/ ComputeRaises
    \/ Rerun

SpecReplay == InitReplay /\ [][NextReplay]_vars

\* ------------------------------------------------- fetchers on their own
\* requests of the data source: two years of ERA5, the first run time of
\* open data
FetcherRequests(b) ==
    IF b = "cds"
    THEN BuildDefaultRequests(b, [year |-> 2022, month |-> 1, day |-> 1],
                              2, "YEARLY")
    ELSE SubSeq(BuildDefaultRequests(b, [year |-> 2022, month |-> 1, day |-> 1],
                                     1, "DAILY"), 1, 1)

\* legacy module inputs/ecmwf/open_data.py: ECMWFOpenDataRequest.file_name
LegacyFileName(r) ==
    <<StrftimeYmd(r.run_date), r.run_time, r.forecast_steps[1],
      r.forecast_steps[Len(r.forecast_steps)], r.stream, r.request_type>>

\* legacy download_raw_files:
\* self.data_dir / request.stream.value / f"{request.file_name}.grib2"
LegacyRawPath(r) == <<"raw_dir", <<r.stream, LegacyFileName(r)>>, "grib2">>

\* destinations of download_raw_file
RawPaths(b) ==
    {RawPath(b, FetcherRequests(b)[i]) : i \in 1..Len(FetcherRequests(b))}

\* destinations of the legacy download_raw_files (open data only)
LegacyRawPaths(b) ==
    IF b = "open_data" THEN {LegacyRawPath(FetcherRequests(b)[1])} ELSE {}

\* what raw_dir holds at a destination before a call: nothing, a file at
\* the size threshold or a larger one
RawEntries ==
    { NoFile,
      [kind |-> "file", sizes |-> <<MIN_VALID_SIZE_BYTES>>],
      [kind |-> "file", sizes |-> <<MIN_VALID_SIZE_BYTES + 1>>] }

\* sizes of the file a client.retrieve that returns has written
RetrievedSizes == {MIN_VALID_SIZE_BYTES, MIN_VALID_SIZE_BYTES + 1}

\* what a client.retrieve in progress has written of the target so far
PartialWrites == {<<MIN_VALID_SIZE_BYTES + 1>>}

\* the worker threads that call the fetcher
FetcherThreads == {1, 2}

\* destination_path.exists()
PathExists(files, destination_path) == files[destination_path] # NoFile

\* download_raw_file: destination_path.exists() and st_size > min_size_bytes
\* and not update
CacheHit(files, destination_path, min_size_bytes, update) ==
    /\ PathExists(files, destination_path)
    /\ files[destination_path].sizes[1] > min_size_bytes
    /\ ~update

\* legacy download_raw_files: destination_path.exists()
LegacyCacheHit(files, destination_path) == PathExists(files, destination_path)

\* exceptions a provider client's retrieve raises (subclasses of Exception)
RetrieveErrors == {"HTTPError", "ValueError"}

\* download_raw_file: except Exception as e
Handles(error) == error \in RetrieveErrors

\* destination_path.unlink() on an existing file
UnlinkPartial(files, destination_path) ==
    [files EXCEPT ![destination_path] = NoFile]

\* a thread that has made no fetcher call yet
NoThreadCall ==
    [method |-> "none", position |-> "idle", destination_path |-> None,
     update |-> FALSE, ret |-> None, cache_hit |-> FALSE,
     after_none |-> FALSE, error |-> "none", raised |-> "none",
     retrieves |-> 0, seen |-> NoFile]

InitFetcher ==
    /\ request_builder \in Builders
    /\ start \in {[year |-> 2022, month |-> 1, day |-> 1]}
    /\ date_offset = 1
    /\ offset_frequency = "DAILY"
    /\ n_workers = 1
    /\ threads_per_worker = 1
    /\ scheduler = "None"
    /\ fs = <<>>
    /\ PipelineIdle
    /\ fs_prev = fs
    /\ file_names = <<>>
    /\ storer_call = NoStorerCall
    /\ raw_files \in [RawPaths(request_builder)
                        \cup LegacyRawPaths(request_builder) -> RawEntries]
    /\ fetcher_call =
          [calls |-> 0,
           last |-> [p \in DOMAIN raw_files |-> "path"],
           threads |-> [c \in FetcherThreads |-> NoThreadCall]]
    /\ geo_filter = LoadArea
    /\ geo_selected = NoGeoFilter
    /\ bounds_ret = NoBounds
    /\ transform_tasks = <<>>

\* the thread's call record once exists() has answered: the legacy
\* download_raw_files returns an existing file at once, download_raw_file
\* goes on to stat() it, and a call that finds no file calls client.retrieve
Entered(method, destination_path, update) ==
    LET exists == PathExists(raw_files, destination_path)
        hit == method = "download_raw_files"
                  /\ LegacyCacheHit(raw_files, destination_path)
    IN [NoThreadCall EXCEPT
          !.method = method,
          !.destination_path = destination_path,
          !.update = update,
          !.after_none = (fetcher_call.last[destination_path] = "none"),
          !.cache_hit = hit,
          !.seen = raw_files[destination_path],
          !.position = IF hit THEN "returned"
                       ELSE IF exists THEN "stat" ELSE "retrieving",
          !.ret = IF hit THEN destination_path ELSE None,
          !.retrieves = IF exists THEN 0 ELSE 1]

\* a call of thread c is entered on destination_path, up to the answer of
\* destination_path.exists()
EnterCall(c, method, destination_path, update) ==
    /\ c \in FetcherThreads
    /\ fetcher_call.threads[c].position \in {"idle", "returned", "raised"}
    /\ fetcher_call.calls < MaxFetchCalls
    /\ fetcher_call' =
          [fetcher_call EXCEPT
              !.calls = @ + 1,
              !.last[destination_path] =
                  IF Entered(method, destination_path, update).cache_hit
                  THEN "path" ELSE fetcher_call.last[destination_path],
              !.threads[c] = Entered(method, destination_path, update)]
    /\ UNCHANGED <<service_state, fs, file_names, storer_call, raw_files,
                   geo_state>>

\* download_raw_file is entered by thread c
DownloadRawFileEnters(c, i, update) ==
    /\ i \in 1..Len(FetcherRequests(request_builder))
    /\ EnterCall(c, "download_raw_file",
                 RawPath(request_builder, FetcherRequests(request_builder)[i]),
                 update)

\* the legacy download_raw_files is entered by thread c
DownloadRawFilesEnters(c) ==
    /\ request_builder = "open_data"
    /\ EnterCall(c, "download_raw_files",
                 LegacyRawPath(FetcherRequests(request_builder)[1]), FALSE)

\* download_raw_file of thread c, after exists() answered True:
\* destination_path.stat().st_size > min_size_bytes and not update.  stat()
\* raises FileNotFoundError when the file has been removed meanwhile, and the
\* exception leaves download_raw_file; otherwise the file is returned or
\* client.retrieve is called
CacheStat(c) ==
    /\ c \in FetcherThreads
    /\ fetcher_call.threads[c].position = "stat"
    /\ LET call == fetcher_call.threads[c]
           destination_path == call.destination_path
           hit == CacheHit(raw_files, destination_path, MIN_VALID_SIZE_BYTES,
                           call.update)
       IN fetcher_call' =
             IF ~PathExists(raw_files, destination_path)
             THEN [fetcher_call EXCEPT
                      !.last[destination_path] = "raised",
                      !.threads[c] =
                          [call EXCEPT !.position = "raised",
                                       !.seen = raw_files[destination_path],
                                       !.raised = "FileNotFoundError"]]
             ELSE [fetcher_call EXCEPT
                      !.last[destination_path] =
                          IF hit THEN "path"
                          ELSE fetcher_call.last[destination_path],
                      !.threads[c] =
                          [call EXCEPT
                              !.cache_hit = hit,
                              !.seen = raw_files[destination_path],
                              !.position =
                                  IF hit THEN "returned" ELSE "retrieving",
                              !.ret = IF hit THEN destination_path ELSE None,
                              !.retrieves = IF hit THEN 0 ELSE 1]]
    /\ UNCHANGED <<service_state, fs, file_names, storer_call, raw_files,
                   geo_state>>

\* client.retrieve of thread c has written the first bytes of the target
RetrieveWrites(c, partial) ==
    /\ c \in FetcherThreads
    /\ fetcher_call.threads[c].position = "retrieving"
    /\ partial \in PartialWrites
    /\ raw_files[fetcher_call.threads[c].destination_path] #
          [kind |-> "file", sizes |-> partial]
    /\ raw_files' =
          [raw_files EXCEPT ![fetcher_call.threads[c].destination_path] =
              [kind |-> "file", sizes |-> partial]]
    /\ UNCHANGED <<service_state, fs, file_names, storer_call, fetcher_call,
                   geo_state>>

\* client.retrieve of thread c returns: the target is written and the call
\* returns the destination
RetrieveReturns(c, size) ==
    /\ c \in FetcherThreads
    /\ fetcher_call.threads[c].position = "retrieving"
    /\ size \in RetrievedSizes
    /\ LET destination_path == fetcher_call.threads[c].destination_path
       IN /\ raw_files' =
                [raw_files EXCEPT ![destination_path] =
                    [kind |-> "file", sizes |-> <<size>>]]
          /\ fetcher_call' =
                [fetcher_call EXCEPT
                    !.last[destination_path] = "path",
                    !.threads[c] =
                        [fetcher_call.threads[c] EXCEPT
                            !.position = "returned",
                            !.ret = destination_path]]
    /\ UNCHANGED <<service_state, fs, file_names, storer_call, geo_state>>

\* client.retrieve of thread c raises, leaving what it has written
RetrieveRaises(c, error) ==
    /\ c \in FetcherThreads
    /\ fetcher_call.threads[c].position = "retrieving"
    /\ error \in RetrieveErrors
    /\ fetcher_call' =
          [fetcher_call EXCEPT
              !.threads[c] =
                  [fetcher_call.threads[c] EXCEPT
                      !.position = "except", !.error = error]]
    /\ UNCHANGED <<service_state, fs, file_names, storer_call, raw_files,
                   geo_state>>

\* the except block of thread c's call, up to the answer of
\* destination_path.is_file(): the error is logged; download_raw_file goes on
\* to unlink an existing file and returns None when there is none, the
\* legacy download_raw_files returns None without looking at the file
ExceptIsFile(c) ==
    /\ c \in FetcherThreads
    /\ fetcher_call.threads[c].position = "except"
    /\ Handles(fetcher_call.threads[c].error)
    /\ LET call == fetcher_call.threads[c]
           destination_path == call.destination_path
       IN fetcher_call' =
             IF /\ call.method = "download_raw_file"
                /\ raw_files[destination_path].kind = "file"
             THEN [fetcher_call EXCEPT
                      !.threads[c] = [call EXCEPT !.position = "unlink"]]
             ELSE [fetcher_call EXCEPT
                      !.last[destination_path] = "none",
                      !.threads[c] =
                          [call EXCEPT !.position = "returned", !.ret = None]]
    /\ UNCHANGED <<service_state, fs, file_names, storer_call, raw_files,
                   geo_state>>

\* the except block of thread c's call, destination_path.unlink() and
\* return None: unlink() raises FileNotFoundError when the file has been
\* removed since is_file() answered, and the exception leaves
\* download_raw_file
ExceptUnlinks(c) ==
    /\ c \in FetcherThreads
    /\ fetcher_call.threads[c].position = "unlink"
    /\ LET call == fetcher_call.threads[c]
           destination_path == call.destination_path
       IN IF PathExists(raw_files, destination_path)
          THEN /\ raw_files' = UnlinkPartial(raw_files, destination_path)
               /\ fetcher_call' =
                     [fetcher_call EXCEPT
                         !.last[destination_path] = "none",
                         !.threads[c] =
                             [call EXCEPT !.position = "returned",
                                          !.ret = None]]
          ELSE /\ fetcher_call' =
                     [fetcher_call EXCEPT
                         !.last[destination_path] = "raised",
                         !.threads[c] =
                             [call EXCEPT !.position = "raised",
                                          !.raised = "FileNotFoundError"]]
               /\ UNCHANGED raw_files
    /\ UNCHANGED <<service_state, fs, file_names, storer_call, geo_state>>

NextFetcher ==
    \/ \E c \in FetcherThreads : \E i \in 1..2 : \E update \in BOOLEAN :
          DownloadRawFileEnters(c, i, update)
    \/ \E c \in FetcherThreads : DownloadRawFilesEnters(c)
    \/ \E c \in FetcherThreads : CacheStat(c)
    \/ \E c \in FetcherThreads : \E partial \in PartialWrites :
          RetrieveWrites(c, partial)
    \/ \E c \in FetcherThreads : \E size \in RetrievedSizes :
          RetrieveReturns(c, size)
    \/ \E c \in FetcherThreads : \E error \in RetrieveErrors :
          RetrieveRaises(c, error)
    \/ \E c \in FetcherThreads : ExceptIsFile(c)
    \/ \E c \in FetcherThreads : ExceptUnlinks(c)

SpecFetcher == InitFetcher /\ [][NextFetcher]_vars

\* ------------------------------------------- GeoFilterModel on its own
\* bounding boxes a filter is built from: Europe, its south-west corner,
\* and a stretch of ocean no country of the catalog reaches
GeoBoxes ==
    { FromStr(EUROPE_BOUNDING_BOX_STR),
      [north |-> 520, west |-> -270, south |-> 330, east |-> 100],
      [north |-> 100, west |-> -400, south |-> 0, east |-> -300] }

\* the codes a list_iso3s is drawn from
GeoIso3s == {"NOR", "FRA", "ESP", "CYP", "USA"}

\* the filters a request builder is constructed with
BuilderGeoFilters ==
    {FromBoundingBox(bounding_box) : bounding_box \in GeoBoxes} \cup {LoadArea}

\* merged datasets: increasing longitudes, with grid points inside regions,
\* on region and envelope edges and outside the envelope
GridDatasets ==
    { [longitude |-> <<-300, -270, -93, 0, 33, 200, 450, 460>>,
       latitude |-> <<400, 600>>],
      [longitude |-> <<-245, -50, 10, 80, 330, 340, 346>>,
       latitude |-> <<350, 450, 650>>] }

\* the builder's filter before any call of a run on one of the given
\* schedulers
InitGeoWith(schedulers) ==
    /\ request_builder = "cds"
    /\ start \in {[year |-> 2022, month |-> 1, day |-> 1]}
    /\ date_offset = 1
    /\ offset_frequency = "DAILY"
    /\ n_workers = 1
    /\ threads_per_worker = 1
    /\ scheduler \in schedulers
    /\ fs = <<>>
    /\ PipelineIdle
    /\ fs_prev = fs
    /\ file_names = <<>>
    /\ storer_call = NoStorerCall
    /\ raw_files = <<>>
    /\ fetcher_call = NoFetcherCall
    /\ geo_filter \in BuilderGeoFilters
    /\ geo_selected = NoGeoFilter
    /\ bounds_ret = NoBounds
    /\ transform_tasks = [t \in 1..MaxTransformTasks |-> NoTransform]

InitGeo == InitGeoWith({"None"})

\* the scheduler argument of download_datasets: "None" is the default,
\* which main passes after it has made a Client of its LocalCluster, so the
\* bag is computed by the cluster's worker processes; "threads" and
\* "synchronous" compute the bag in the calling process
Schedulers == {"None", "threads", "synchronous"}

\* a run's transform calls, on the cluster or in the calling process
InitTransform == InitGeoWith(Schedulers)

\* filter_iso3s on the builder's filter
FilterIso3sCall(list_iso3s) ==
    /\ geo_selected' = FilterIso3s(geo_filter, list_iso3s)
    /\ geo_filter' = FilterIso3sSelf(geo_filter, list_iso3s)
    /\ UNCHANGED <<service_state, fs, file_names, storer_call, fetcher_state,
                   bounds_ret, transform_tasks>>

\* filter_iso3s on a filter that filter_iso3s returned
FilterIso3sAgain(list_iso3s) ==
    /\ geo_selected # NoGeoFilter
    /\ geo_selected' = FilterIso3s(geo_selected, list_iso3s)
    /\ UNCHANGED <<service_state, fs, file_names, storer_call, fetcher_state,
                   geo_filter, bounds_ret, transform_tasks>>

\* the bounds property of the builder's filter is read
ReadBounds ==
    /\ bounds_ret' =
          [of |-> "geo_filter", value |-> Bounds(geo_filter),
           filter_df |-> geo_filter.filter_df]
    /\ UNCHANGED <<service_state, fs, file_names, storer_call, fetcher_state,
                   geo_filter, geo_selected, transform_tasks>>

\* the bounds property of the filter returned by filter_iso3s is read
ReadSelectedBounds ==
    /\ geo_selected # NoGeoFilter
    /\ bounds_ret' =
          [of |-> "geo_selected", value |-> Bounds(geo_selected),
           filter_df |-> geo_selected.filter_df]
    /\ UNCHANGED <<service_state, fs, file_names, storer_call, fetcher_state,
                   geo_filter, geo_selected, transform_tasks>>

\* the GeoFilterModel object that self.request_builder.geo_filter is in
\* task t (one task per partition).  0 is the object the builder was
\* constructed with, in the process that calls download_datasets.  The bag
\* maps the bound method self._process.  On the cluster each task reaches
\* its worker pickled and is loaded on its own: the method of task t
\* carries its own copy of the service, the request builder and the
\* builder's filter, equal in state, whichever worker process runs it.
\* Computed in the calling process, every task calls the method of the
\* service itself
GeoFilterInstance(sched, t) == IF sched = "None" THEN t ELSE 0

\* _process of task t calls processor.transform with
\* geo_filter=self.request_builder.geo_filter; transform loads and merges
\* the raw file into dataset
TransformEnters(t, dataset) ==
    /\ t \in 1..MaxTransformTasks
    /\ transform_tasks[t].position = "idle"
    /\ transform_tasks' =
          [transform_tasks EXCEPT ![t] =
              [@ EXCEPT !.position = "entered",
                        !.instance = GeoFilterInstance(scheduler, t),
                        !.geo_filter = geo_filter,
                        !.dataset = dataset]]
    /\ UNCHANGED <<service_state, fs, file_names, storer_call, fetcher_state,
                   geo_filter, geo_selected, bounds_ret>>

\* transform of task t: dataset = geo_filter.filter_dataset(dataset)
TransformFilterDataset(t) ==
    /\ t \in 1..MaxTransformTasks
    /\ transform_tasks[t].position = "entered"
    /\ transform_tasks' =
          [transform_tasks EXCEPT ![t] =
              [@ EXCEPT !.position = "trimmed",
                        !.trimmed = FilterDataset(transform_tasks[t].geo_filter,
                                                  transform_tasks[t].dataset)]]
    /\ UNCHANGED <<service_state, fs, file_names, storer_call, fetcher_state,
                   geo_filter, geo_selected, bounds_ret>>

\* transform of task t: ddf = self.process(dataset), then
\* ddf = geo_filter.filter_dask(ddf)
TransformFilterDask(t) ==
    /\ t \in 1..MaxTransformTasks
    /\ transform_tasks[t].position = "trimmed"
    /\ transform_tasks' =
          [transform_tasks EXCEPT ![t] =
              [@ EXCEPT !.position = "joined",
                        !.ddf = FilterDask(transform_tasks[t].geo_filter,
                                            Process(transform_tasks[t].trimmed))]]
    /\ UNCHANGED <<service_state, fs, file_names, storer_call, fetcher_state,
                   geo_filter, geo_selected, bounds_ret>>

\* transform of task t: ddf = self.post_process(ddf); return ddf
TransformPostProcess(t) ==
    /\ t \in 1..MaxTransformTasks
    /\ transform_tasks[t].position = "joined"
    /\ transform_tasks' =
          [transform_tasks EXCEPT ![t] =
              [@ EXCEPT !.position = "returned",
                        !.ret = PostProcess(transform_tasks[t].ddf)]]
    /\ UNCHANGED <<service_state, fs, file_names, storer_call, fetcher_state,
                   geo_filter, geo_selected, bounds_ret>>

NextGeo ==
    \/ \E list_iso3s \in SUBSET GeoIso3s : FilterIso3sCall(list_iso3s)
    \/ \E list_iso3s \in SUBSET GeoIso3s : FilterIso3sAgain(list_iso3s)
    \/ ReadBounds
    \/ ReadSelectedBounds

SpecGeo == InitGeo /\ [][NextGeo]_vars

\* ------------------------- transform calls of a run on the shared filter
\* the lists other users of the builder's filter call filter_iso3s with
\* while the tasks run
TransformIso3Lists == {{"FRA"}, {"NOR", "ESP"}, {}}

NextTransform ==
    \/ \E t \in 1..MaxTransformTasks : \E dataset \in GridDatasets :
          TransformEnters(t, dataset)
    \/ \E t \in 1..MaxTransformTasks : TransformFilterDataset(t)
    \/ \E t \in 1..MaxTransformTasks : TransformFilterDask(t)
    \/ \E t \in 1..MaxTransformTasks : TransformPostProcess(t)
    \/ \E list_iso3s \in TransformIso3Lists : FilterIso3sCall(list_iso3s)
    \/ ReadBounds

SpecTransform == InitTransform /\ [][NextTransform]_vars

\* ----------------------------------------------- LocalClient on its own
\* two artifact paths of processed_dir
StorePaths ==
    { ArtifactPath(FileName("cds", BuildDefaultRequestsCDS(
          [year |-> y, month |-> 1, day |-> 1])[1])) : y \in {2022, 2023} }

\* what a path can hold: nothing, a file, a directory of files, or something
\* that is neither a file nor a directory
StoreEntries ==
    { NoFile,
      [kind |-> "file", sizes |-> <<0>>],
      [kind |-> "file", sizes |-> <<MIN_VALID_SIZE_BYTES>>],
      [kind |-> "file", sizes |-> <<MIN_VALID_SIZE_BYTES + 1>>],
      [kind |-> "dir", sizes |-> <<>>],
      [kind |-> "dir", sizes |-> <<MIN_VALID_SIZE_BYTES>>],
      [kind |-> "dir", sizes |-> <<MIN_VALID_SIZE_BYTES, 1>>],
      [kind |-> "other", sizes |-> <<>>] }

\* thresholds a caller passes as min_size_bytes
MinSizes == {0, MIN_VALID_SIZE_BYTES}

InitStore ==
    /\ request_builder = "cds"
    /\ start \in {[year |-> 2022, month |-> 1, day |-> 1]}
    /\ date_offset = 1
    /\ offset_frequency = "DAILY"
    /\ n_workers = 1
    /\ threads_per_worker = 1
    /\ scheduler = "None"
    /\ fs \in [StorePaths -> StoreEntries]
    /\ PipelineIdle
    /\ fs_prev = fs
    /\ ComponentsIdle

\* LocalClient.exists
ExistsCall(path) ==
    /\ storer_call' =
          [op |-> "exists", path |-> path, min_size_bytes |-> 0,
           ret |-> Exists(fs, path), raised |-> "none", before |-> fs]
    /\ UNCHANGED <<service_state, fs, file_names, fetcher_state, geo_state>>

\* LocalClient.is_valid
IsValidCall(path, min_size_bytes) ==
    /\ storer_call' =
          [op |-> "is_valid", path |-> path,
           min_size_bytes |-> min_size_bytes,
           ret |-> IsValid(fs, path, min_size_bytes), raised |-> "none",
           before |-> fs]
    /\ UNCHANGED <<service_state, fs, file_names, fetcher_state, geo_state>>

\* LocalClient.store, on a path that holds no artifact or an earlier one
StoreCall(path, parts) ==
    /\ fs[path].kind \in {"none", "dir"}
    /\ fs' = StoreWrite(fs, parts, path)
    /\ storer_call' =
          [op |-> "store", path |-> path, min_size_bytes |-> 0,
           ret |-> StoreReturnValue(path), raised |-> "none", before |-> fs]
    /\ UNCHANGED <<service_state, file_names, fetcher_state, geo_state>>

\* LocalClient.store raises; the exception is the one the failing call
\* raised, store handles none.  made = FALSE: parent.mkdir or to_parquet
\* fails before the dataset directory is made, whatever the path holds, and
\* the file system is as it was.  made = TRUE: the write of the part files
\* fails: the directory exists, the parts in complete are written, those in
\* opened were being written (each task opens its part file, which empties
\* it, fills it and closes it; the tasks run in any order) and at least one
\* part is not complete
StoreCallRaises(path, parts, made, complete, opened) ==
    /\ complete \subseteq DOMAIN parts
    /\ opened \subseteq DOMAIN parts \ complete
    /\ complete # DOMAIN parts
    /\ made => fs[path].kind \in {"none", "dir"}
    /\ ~made => (complete = {} /\ opened = {})
    /\ fs' = IF made
             THEN StoreLeaves(fs, parts, path, complete, opened)
             ELSE fs
    /\ storer_call' =
          [op |-> "store", path |-> path, min_size_bytes |-> 0,
           ret |-> None, raised |-> "Exception", before |-> fs]
    /\ UNCHANGED <<service_state, file_names, fetcher_state, geo_state>>

\* LocalClient.delete
DeleteCall(path) ==
    /\ fs' = Delete(fs, path)
    /\ storer_call' =
          [op |-> "delete", path |-> path, min_size_bytes |-> 0,
           ret |-> None, raised |-> DeleteRaised(fs, path), before |-> fs]
    /\ UNCHANGED <<service_state, file_names, fetcher_state, geo_state>>

NextStore ==
    \/ \E path \in StorePaths : ExistsCall(path)
    \/ \E path \in StorePaths : \E m \in MinSizes : IsValidCall(path, m)
    \/ \E path \in StorePaths : \E parts \in DatasetParts :
            StoreCall(path, parts)
    \/ \E path \in StorePaths : \E parts \in DatasetParts :
          \E made \in BOOLEAN : \E complete, opened \in SUBSET PartNumbers :
            StoreCallRaises(path, parts, made, complete, opened)
    \/ \E path \in StorePaths : DeleteCall(path)

SpecStore == InitStore /\ [][NextStore]_vars

\* ------------------------------------------------- file_name on its own
\* ECMWFOpenDataRequest values: the builder's default request with other
\* run dates, run times, request types, parameters and forecast steps
OpenDataRequests ==
    { [run_date |-> d, run_time |-> t, stream |-> "oper",
       request_type |-> ty, nwp_parameters |-> ps, forecast_steps |-> st,
       update_raw |-> FALSE, normalise_data |-> FALSE] :
        d \in { [year |-> 2022, month |-> 1, day |-> 1],
                [year |-> 2022, month |-> 1, day |-> 2] },
        t \in {RunTime[1], RunTime[2]},
        ty \in {"fc", "pf"},
        ps \in {OD_NWP_PARAMETERS, <<"2t">>},
        st \in {FORECAST_STEPS, <<0, 90>>, <<0, 3>>} }

\* ECMWFCDSRequest values: the builder's default request with other years,
\* months, parameters and areas
CDSRequests ==
    { [dataset |-> "reanalysis-era5-single-levels", years |-> ys,
       months |-> ms, days |-> DEFAULT_DAYS, times |-> DEFAULT_TIMES,
       nwp_parameters |-> ps, product_type |-> "reanalysis", area |-> a] :
        ys \in {<<2022>>, <<2023>>},
        ms \in {DEFAULT_MONTHS, <<1>>},
        ps \in {CDS_NWP_PARAMETERS, <<"2m_temperature">>},
        a \in {BoundingBox, FromStr(EUROPE_BOUNDING_BOX_STR)} }

RequestValues(b) == IF b = "cds" THEN CDSRequests ELSE OpenDataRequests

\* two requests of one data source and an empty processed_dir
InitIdentity ==
    /\ request_builder \in Builders
    /\ all_requests \in
          {<<a, b>> : a \in RequestValues(request_builder),
                      b \in RequestValues(request_builder)}
    /\ start \in {[year |-> 2022, month |-> 1, day |-> 1]}
    /\ date_offset = 1
    /\ offset_frequency = "DAILY"
    /\ n_workers = 1
    /\ threads_per_worker = 1
    /\ scheduler = "None"
    /\ fs = [p \in {ArtifactPath(FileName(request_builder, all_requests[i])) :
                       i \in 1..2} |-> NoFile]
    /\ pc = "start"
    /\ PipelineLocalsIdle
    /\ fs_prev = fs
    /\ ComponentsIdle

\* request.file_name, read for each request
ComputeFileNames ==
    /\ pc = "start"
    /\ file_names' = [i \in 1..Len(all_requests) |->
                         FileName(request_builder, all_requests[i])]
    /\ pc' = "named"
    /\ UNCHANGED <<inputs, all_requests, fs, run, is_valid_ret,
                   is_valid_path, all_new_requests, pipeline, partitions, stage, raw_path,
                   processed, written, storing, fetching, calls, processed_files, history,
                   build_trace, storer_call, fetcher_state, geo_state>>

\* _store for the first request: its artifact is written under its file_name
StoreFirst(parts) ==
    /\ pc = "named"
    /\ parts \in DatasetParts
    /\ fs' = StoreWrite(fs, parts, ArtifactPath(file_names[1]))
    /\ pc' = "first_stored"
    /\ UNCHANGED <<inputs, all_requests, run, is_valid_ret,
                   is_valid_path, all_new_requests, pipeline, partitions, stage, raw_path,
                   processed, written, storing, fetching, calls, processed_files, history,
                   build_trace, components>>

\* _filter_new_requests: is_valid on the artifact path of each request
CheckBoth ==
    /\ pc = "first_stored"
    /\ is_valid_ret' = [i \in 1..Len(all_requests) |->
                           IsValid(fs, ArtifactPath(file_names[i]),
                                   MIN_VALID_SIZE_BYTES)]
    /\ is_valid_path' = [i \in 1..Len(all_requests) |->
                            ArtifactPath(file_names[i])]
    /\ pc' = "checked"
    /\ UNCHANGED <<inputs, all_requests, fs, run,
                   all_new_requests, pipeline, partitions, stage, raw_path,
                   processed, written, storing, fetching, calls, processed_files, history,
                   build_trace, components>>

NextIdentity ==
    \/ ComputeFileNames
    \/ \E parts \in DatasetParts : StoreFirst(parts)
    \/ CheckBoth

SpecIdentity == InitIdentity /\ [][NextIdentity]_vars

\* ------------------------------------- _build_default_requests on its own
\* the service of the test suite or of a data source, with an empty store
InitBuild ==
    /\ request_builder \in TestBuilders
    /\ start \in BuildStartDates
    /\ date_offset \in (-1)..MaxBuildOffset
    /\ offset_frequency \in OffsetFrequency
    /\ n_workers = 1
    /\ threads_per_worker = 1
    /\ scheduler = "None"
    /\ fs = <<>>
    /\ PipelineIdle
    /\ fs_prev = fs
    /\ ComponentsIdle

NextBuild ==
    \/ BuildRequests
    \/ BuildRequestsRaises

SpecBuild == InitBuild /\ [][NextBuild]_vars

\* ================================================================= claims
New == RangeOf(all_new_requests)

FilterDone == pc \in {"process", "compute", "done", "raised"}

Finished == pc \in {"done", "raised"}

NoCalls(i) == fetchCalls[i] = 0 /\ transformCalls[i] = 0 /\ storeCalls[i] = 0

\* requests whose download_raw_file returned None
FetchFailed == {i \in Positions : fetchCalls[i] > 0 /\ stage[i] # "fetching"
                                    /\ raw_path[i] = None}

Slots == n_workers * threads_per_worker

\* C1: when download_datasets has ended, a request got no fetch, transform
\* or store call iff is_valid returned true for it, and every request for
\* which is_valid returned false got exactly one download_raw_file call.
C1_SkippedIffValid ==
    Finished =>
        \A i \in Positions :
            /\ NoCalls(i) <=> is_valid_ret[i]
            /\ ~is_valid_ret[i] => fetchCalls[i] = 1

\* C2: idempotent rerun: when is_valid returned true for every built request,
\* no pipeline is built, no download_raw_file, transform or store call is
\* made and download_datasets returns the empty list.
C2_IdempotentRerun ==
    (FilterDone /\ \A i \in Positions : is_valid_ret[i]) =>
        /\ pipeline = "none"
        /\ partitions = <<>>
        /\ \A i \in Positions : NoCalls(i) /\ stage[i] = "idle"
        /\ pc \in {"process", "done"}
        /\ pc = "done" => processed_files = <<>>

C2_Witness ==
    /\ run = 2
    /\ prev_stored # {}
    /\ pc = "done"
    /\ Len(all_requests) >= 1
    /\ \A i \in Positions : is_valid_ret[i]
    /\ processed_files = <<>>

\* C3: partial fetch-failure isolation: when no transform or store raises,
\* the run raises no exception, a request whose download returned None gets
\* no transform and no store call, and the returned list has exactly one
\* written path for each new request whose download succeeded.
C3_FetchFailureIsolation ==
    /\ pc = "raised" => \E i \in Positions : stage[i] = "failed"
    /\ \A i \in FetchFailed : transformCalls[i] = 0 /\ storeCalls[i] = 0
    /\ pc = "done" =>
         /\ Len(processed_files) = Cardinality(New \ FetchFailed)
         /\ \A i \in New \ FetchFailed :
                \E k \in 1..Len(processed_files) : processed_files[k] = PathOf(i)

C3_Witness ==
    /\ pc = "done"
    /\ Cardinality(New) = 2
    /\ Cardinality(FetchFailed) = 1
    /\ Len(processed_files) = 1

\* C4: transform/store failure isolation: when transform or store raised for
\* a request, the run still returns (the failure is only counted) and every
\* sibling has reached a terminal stage of its own.
C4_TaskFailureIsolation ==
    (Finished /\ \E i \in Positions : stage[i] = "failed") =>
        /\ pc = "done"
        /\ \A j \in New : stage[j] \in {"stored", "dropped", "failed"}

\* C5: at most once per logical unit: no two requests of a run that got a
\* store call target the same artifact path, and no two requests that got a
\* fetch call have the same identity.
C5_AtMostOncePerPath ==
    \A i, j \in Positions :
        i # j =>
            /\ (storeCalls[i] > 0 /\ storeCalls[j] > 0) => PathOf(i) # PathOf(j)
            /\ (fetchCalls[i] > 0 /\ fetchCalls[j] > 0) => FileNameOf(i) # FileNameOf(j)

\* C6 as stated: in a second run with the same request set, every request
\* whose store call succeeded in the first run is skipped, and the run
\* attempts exactly the requests the first run neither stored nor skipped.
C6_ReplaySkipsEveryStored ==
    (run >= 2 /\ FilterDone) =>
        /\ \A i \in prev_stored : is_valid_ret[i] /\ NoCalls(i)
        /\ New = Positions \ (prev_stored \cup prev_skipped)

\* C6 amended: in a second run with the same request set, a request is
\* skipped (no fetch, transform or store call) iff the artifact the first run
\* left at its path exists with a total size strictly above
\* MIN_VALID_SIZE_BYTES; the run attempts exactly the other requests, among
\* them every request stored in the first run with a smaller artifact.
C6_ReplaySkipsValidArtifacts ==
    (run >= 2 /\ FilterDone) =>
        \A i \in Positions :
            LET left == fs_prev[PathOf(i)]
                large == left # NoFile /\ TotalSize(left) > MIN_VALID_SIZE_BYTES
            IN /\ large => (is_valid_ret[i] /\ NoCalls(i) /\ i \notin New)
               /\ ~large => (~is_valid_ret[i] /\ i \in New)

C6_Witness ==
    /\ run = 2
    /\ pc = "done"
    /\ \E j \in prev_stored :
          /\ fs_prev[PathOf(j)] # NoFile
          /\ ~is_valid_ret[j]
          /\ fetchCalls[j] = 1
          /\ stage[j] = "stored"

\* C7: per-request stage ordering: transform is called for a request only
\* after its download returned a non-None path, and store only after its
\* transform returned.
C7_StageOrdering ==
    \A i \in Positions :
        /\ transformCalls[i] > 0 =>
              (fetchCalls[i] > 0 /\ stage[i] # "fetching" /\ raw_path[i] # None)
        /\ storeCalls[i] > 0 =>
              (transformCalls[i] > 0 /\ stage[i] # "transforming"
               /\ processed[i] # NoDataset)

C7_Witness ==
    \E i, j \in Positions :
        /\ stage[i] = "storing"
        /\ \E k \in DOMAIN storing[i].part : storing[i].part[k] = "done"
        /\ stage[j] = "transforming"

\* C8: bounded concurrency: the number of request pipelines in flight never
\* exceeds n_workers * threads_per_worker.
C8_BoundedConcurrency == Cardinality(InFlight) <= Slots

\* C9: the number of partitions is bounded by the configured worker
\* concurrency (n_workers * threads_per_worker) and by the number of new
\* requests, and every new request belongs to exactly one partition.
C9_PartitionsBoundedByWorkers ==
    pipeline = "built" =>
        /\ Len(partitions) <= Slots
        /\ Len(partitions) <= Len(all_new_requests)
        /\ Flatten(partitions) = all_new_requests
        /\ \A i \in New :
              Cardinality({t \in 1..Len(partitions) : i \in RangeOf(partitions[t])}) = 1

\* C10: the returned list holds exactly the value store returned for each
\* request that completed fetch, transform and store, in bag order, one entry
\* per such request; skipped and dropped requests contribute no entry.
C10_ResultContents ==
    pc = "done" =>
        LET completed(i) == storeCalls[i] = 1 /\ stage[i] = "stored"
            done_seq == SelectSeq(all_new_requests, completed)
        IN /\ Len(processed_files) = Len(done_seq)
           /\ \A k \in 1..Len(done_seq) :
                 /\ processed_files[k] = written[done_seq[k]]
                 /\ processed_files[k] = PathOf(done_seq[k])
           /\ \A i \in Positions :
                 (is_valid_ret[i] \/ i \in FetchFailed) =>
                     (written[i] = None /\ storeCalls[i] = 0)

C10_Witness ==
    /\ pc = "done"
    /\ Len(processed_files) = 1
    /\ \E i \in Positions : is_valid_ret[i]
    /\ \E i \in Positions : stage[i] = "stored" /\ processed_files = <<written[i]>>

\* C11: exactly-once invocation on the success path: for a request that went
\* through all its stages, is_valid, download_raw_file, transform and store
\* were each called exactly once for it; transform got the raw path that
\* request's download returned (raw_dir/<file_name>.<ext>), and store got the
\* dataset of that transform with destination processed_dir/<file_name>.parquet
\* of the same request.
C11_ExactlyOnceOnSuccess ==
    \A i \in Positions :
        stage[i] = "stored" =>
            LET name == FileName(request_builder, all_requests[i])
                ext == IF request_builder = "cds" THEN "grib" ELSE "grib2"
            IN /\ isValidCalls[i] = 1
               /\ fetchCalls[i] = 1
               /\ transformCalls[i] = 1
               /\ storeCalls[i] = 1
               /\ raw_path[i] = <<"raw_dir", name, ext>>
               /\ processed[i] = [ddf |-> [raw_path |-> raw_path[i]],
                                  file_name |-> name]
               /\ written[i] = <<"processed_dir", name, "parquet">>
               /\ fs[written[i]] # NoFile

C11_Witness ==
    /\ pc = "done"
    /\ \E i, j \in Positions :
          /\ stage[i] = "stored" /\ stage[j] = "stored"
          /\ written[i] # written[j]
          /\ raw_path[i] # raw_path[j]
          /\ fetchCalls[i] = 1 /\ transformCalls[i] = 1 /\ storeCalls[i] = 1

\* number of days from 2000-01-01 to d
RECURSIVE DaysBeforeYear(_)
DaysBeforeYear(y) ==
    IF y <= 2000 THEN 0
    ELSE DaysBeforeYear(y - 1) + (IF IsLeap(y - 1) THEN 366 ELSE 365)

RECURSIVE DaysBeforeMonth(_, _)
DaysBeforeMonth(y, m) ==
    IF m <= 1 THEN 0 ELSE DaysBeforeMonth(y, m - 1) + DaysInMonth(y, m - 1)

DayNumber(d) == DaysBeforeYear(d.year) + DaysBeforeMonth(d.year, d.month) + d.day

Built == pc = "filter"

\* the run dates a call asks the builder for
ExpectedCalls == IF date_offset > 0 THEN date_offset ELSE 0

TestExample ==
    /\ request_builder = "mock"
    /\ start = [year |-> 2022, month |-> 1, day |-> 1]
    /\ date_offset = 2
    /\ offset_frequency = "DAILY"

\* C12 as stated: _build_default_requests calls the builder once per run
\* date, for the date_offset run dates start + i*unit, i = 0..date_offset-1 in
\* increasing i: consecutive days for DAILY, the same date in consecutive
\* years for YEARLY; for 2022-01-01, 2, DAILY and one request per date it
\* returns the requests of 2022-01-01 and 2022-01-02 in that order.
C12_DateExpansion ==
    Built =>
        /\ Len(builder_calls) = ExpectedCalls
        /\ \A i \in 1..Len(builder_calls) :
              /\ offset_frequency = "DAILY" =>
                    DayNumber(builder_calls[i]) = DayNumber(start) + (i - 1)
              /\ offset_frequency = "YEARLY" =>
                    builder_calls[i] = [start EXCEPT !.year = @ + (i - 1)]
        /\ TestExample =>
              all_requests = << [file_name |-> 20220101],
                                [file_name |-> 20220102] >>

\* C12 amended: as above, where YEARLY gives the same month and day in
\* consecutive years except that a start on 29 February gives 28 February
\* in the years that are not leap years.
C12_DateExpansionClipped ==
    Built =>
        /\ Len(builder_calls) = ExpectedCalls
        /\ \A i \in 1..Len(builder_calls) :
              /\ offset_frequency = "DAILY" =>
                    DayNumber(builder_calls[i]) = DayNumber(start) + (i - 1)
              /\ offset_frequency = "YEARLY" =>
                    LET y == start.year + (i - 1)
                        leap_day == start.month = 2 /\ start.day = 29
                    IN builder_calls[i] =
                          [year |-> y, month |-> start.month,
                           day |-> IF leap_day /\ ~IsLeap(y) THEN 28
                                   ELSE start.day]
        /\ TestExample =>
              all_requests = << [file_name |-> 20220101],
                                [file_name |-> 20220102] >>

C12_Witness ==
    /\ Built
    /\ offset_frequency = "YEARLY"
    /\ start = [year |-> 2024, month |-> 2, day |-> 29]
    /\ Len(builder_calls) >= 2
    /\ builder_calls[2] = [year |-> 2025, month |-> 2, day |-> 28]

\* C13: configuration error: with an offset unit other than DAILY or YEARLY
\* download_datasets fails with a configuration error before any is_valid,
\* download_raw_file, transform or store call, whatever the offset count: it
\* never gets past building the requests.
C13_UnsupportedUnitFails ==
    offset_frequency \notin {"DAILY", "YEARLY"} =>
        /\ pc \in {"load", "type_error", "start", "config_error"}
        /\ all_requests = <<>>
        /\ isValidCalls = <<>> /\ fetchCalls = <<>>
        /\ transformCalls = <<>> /\ storeCalls = <<>>

\* C15: identity collision resistance: two requests that differ in a
\* parameter field have different file_name, and once one of them has a
\* valid artifact is_valid is still false for the other.
C15_DistinctRequestsDistinctNames ==
    (pc \in {"named", "first_stored", "checked"}
        /\ all_requests[1] # all_requests[2]) =>
        /\ file_names[1] # file_names[2]
        /\ pc = "checked" => ~is_valid_ret[2]

\* C16: validity check: is_valid(path, min_size_bytes) returns true iff the
\* path exists and its total size (the file's size, or the sum of the sizes
\* of the files under a directory) is strictly greater than min_size_bytes;
\* it is false for a missing path, an empty directory and a size equal to
\* the threshold.
C16_ValidityCheck ==
    storer_call.op = "is_valid" =>
        LET entry == fs[storer_call.path]
            total == IF entry.kind = "file" THEN entry.sizes[1]
                     ELSE SumSeq(entry.sizes)
        IN /\ storer_call.ret =
                 (entry.kind # "none" /\ total > storer_call.min_size_bytes)
           /\ entry.kind = "none" => storer_call.ret = FALSE
           /\ (entry.kind = "dir" /\ entry.sizes = <<>>) =>
                 storer_call.ret = FALSE
           /\ total = storer_call.min_size_bytes => storer_call.ret = FALSE

C16_Witness ==
    /\ storer_call.op = "is_valid"
    /\ storer_call.min_size_bytes = MIN_VALID_SIZE_BYTES
    /\ fs[storer_call.path].kind = "dir"
    /\ Len(fs[storer_call.path].sizes) = 2
    /\ storer_call.ret = TRUE
    /\ \E q \in DOMAIN fs :
          fs[q] = [kind |-> "file", sizes |-> <<MIN_VALID_SIZE_BYTES>>]

\* C19: delete(path) on a path that does not exist raises an explicit error
\* and leaves the store unchanged; on an existing file or directory it
\* removes that path, so that exists(path) is false afterwards, and leaves
\* every other path unchanged.
C19_Delete ==
    storer_call.op = "delete" =>
        LET before == storer_call.before
            path == storer_call.path
        IN /\ before[path].kind = "none" =>
                 /\ storer_call.raised = "FileNotFoundError"
                 /\ fs = before
           /\ before[path].kind \in {"file", "dir"} =>
                 /\ storer_call.raised = "none"
                 /\ fs[path] = NoFile
                 /\ \A q \in DOMAIN fs \ {path} : fs[q] = before[q]

C19_Witness ==
    /\ storer_call.op = "delete"
    /\ storer_call.raised = "FileNotFoundError"
    /\ \E q \in DOMAIN fs : fs[q].kind = "dir" /\ fs[q].sizes # <<>>

\* C17: deterministic layout and key consistency: for every request the path
\* given to is_valid, the destination given to store and the path returned
\* in the result are the same processed_dir/<file_name>.parquet, the raw
\* file is at raw_dir/<file_name>.<provider extension>, and whether a
\* request is new is decided by what the store holds at that path alone.
C17_LayoutAndKey ==
    \A i \in Positions :
        LET name == FileName(request_builder, all_requests[i])
            path == <<"processed_dir", name, "parquet">>
            ext == IF request_builder = "cds" THEN "grib" ELSE "grib2"
            held == fs_prev[path]
        IN /\ FilterDone =>
                 /\ is_valid_path[i] = path
                 /\ is_valid_ret[i] <=>
                        (held # NoFile /\ TotalSize(held) > MIN_VALID_SIZE_BYTES)
                 /\ i \in New <=> ~is_valid_ret[i]
           /\ raw_path[i] # None => raw_path[i] = <<"raw_dir", name, ext>>
           /\ storeCalls[i] > 0 =>
                 <<"processed_dir", processed[i].file_name, "parquet">> = path
           /\ stage[i] = "stored" => (written[i] = path /\ fs[path] # NoFile)
           /\ (pc = "done" /\ stage[i] = "stored") =>
                 \E k \in 1..Len(processed_files) : processed_files[k] = path

C17_Witness ==
    /\ pc = "done"
    /\ request_builder = "cds"
    /\ \E i \in Positions : is_valid_ret[i] /\ is_valid_path[i] = PathOf(i)
    /\ \E j \in Positions :
          /\ stage[j] = "stored"
          /\ is_valid_path[j] = written[j]
          /\ processed_files = <<written[j]>>

\* the calls of download_raw_file made so far, by thread
RawFileCalls ==
    {c \in DOMAIN fetcher_call.threads :
        fetcher_call.threads[c].method = "download_raw_file"}

\* C18: partial download cleanup: once a fetcher call (download_raw_file of
\* either fetcher, or download_raw_files of the legacy open-data fetcher)
\* has returned None, no file is at that raw destination unless a call on it
\* is in progress, and a call entered for a request whose last ended call
\* returned None calls the provider client again instead of returning a file
\* as a cache hit.
C18_PartialDownloadCleanup ==
    /\ \A p \in DOMAIN raw_files :
          (fetcher_call.last[p] = "none"
              /\ ~\E c \in DOMAIN fetcher_call.threads :
                    /\ fetcher_call.threads[c].position
                          \in {"stat", "retrieving", "except", "unlink"}
                    /\ fetcher_call.threads[c].destination_path = p) =>
              raw_files[p] = NoFile
    /\ \A c \in DOMAIN fetcher_call.threads :
          (fetcher_call.threads[c].after_none
              /\ fetcher_call.threads[c].position # "stat") =>
              /\ ~fetcher_call.threads[c].cache_hit
              /\ fetcher_call.threads[c].retrieves = 1

\* b is the envelope of the geometries of filter_df: it contains every part
\* of every region and each of its sides is reached by some part; with no
\* geometry at all it is the NaN bounds
IsEnvelopeOf(b, filter_df) ==
    LET parts == UNION {filter_df[k].geometry : k \in 1..Len(filter_df)}
    IN IF parts = {} THEN b.nan
       ELSE /\ ~b.nan
            /\ \A r \in parts :
                  /\ b.min_lon <= r.west /\ r.east <= b.max_lon
                  /\ b.min_lat <= r.south /\ r.north <= b.max_lat
            /\ \E r \in parts : r.west = b.min_lon
            /\ \E r \in parts : r.east = b.max_lon
            /\ \E r \in parts : r.south = b.min_lat
            /\ \E r \in parts : r.north = b.max_lat

\* C20: envelope invariant: every value read from GeoFilterModel.bounds is
\* the union bounds of the geometries in filter_df at that access (it
\* contains every region's bounds and is tight), for the filter built from
\* a bounding box, whatever filter_iso3s calls were made in between, and for
\* the filter returned by filter_iso3s, whose bounds are those of the
\* selected regions only.
C20_EnvelopeInvariant ==
    /\ bounds_ret.of # "none" =>
          IsEnvelopeOf(bounds_ret.value, bounds_ret.filter_df)
    /\ bounds_ret.of = "geo_filter" =>
          IsEnvelopeOf(bounds_ret.value, geo_filter.filter_df)
    /\ bounds_ret.of = "geo_selected" =>
          \A k \in 1..Len(bounds_ret.filter_df) :
              \E j \in 1..Len(geo_filter.filter_df) :
                  bounds_ret.filter_df[k] = geo_filter.filter_df[j]

C20_Witness ==
    /\ bounds_ret.of = "geo_selected"
    /\ geo_selected.filter_df = bounds_ret.filter_df
    /\ Len(bounds_ret.filter_df) >= 2
    /\ Len(bounds_ret.filter_df) < Len(geo_filter.filter_df)
    /\ ~bounds_ret.value.nan
    /\ ~IsEnvelopeOf(bounds_ret.value, geo_filter.filter_df)

\* C21: shared read-only GeoFilter: every transform call of a run receives
\* the same geo filter instance, the object the request builder holds, with
\* the builder's regions and predicate, and no transform step
\* (filter_dataset, filter_dask), bounds read or filter_iso3s call ever
\* changes the regions or the predicate of the builder's filter.
C21_SharedReadOnlyGeoFilter ==
    /\ [](\A t, u \in DOMAIN transform_tasks :
            (transform_tasks[t].position # "idle"
                /\ transform_tasks[u].position # "idle") =>
                /\ transform_tasks[t].instance = transform_tasks[u].instance
                /\ transform_tasks[t].instance = 0
                /\ transform_tasks[t].geo_filter = geo_filter)
    /\ [][geo_filter' = geo_filter]_vars

\* C22: aggregate accounting: when download_datasets has returned, the
\* number of built requests is the number skipped (is_valid true, i.e. all
\* requests minus new requests) plus the number produced (length of the
\* returned list) plus the reported count of failed files (new requests minus
\* produced); the failed count is not negative and is the number of new
\* requests whose pipeline did not end in a stored artifact.
C22_AggregateAccounting ==
    pc = "done" =>
        LET requested == Len(all_requests)
            skipped == Cardinality({i \in Positions : is_valid_ret[i]})
            produced == Len(processed_files)
            failed == CountFailedFiles(all_new_requests, processed_files)
        IN /\ skipped = requested - Len(all_new_requests)
           /\ requested = skipped + produced + failed
           /\ failed >= 0
           /\ failed = Cardinality({i \in New : stage[i] # "stored"})

C22_Witness ==
    /\ pc = "done"
    /\ Len(all_requests) = 2
    /\ Cardinality({i \in Positions : is_valid_ret[i]}) = 0
    /\ Len(processed_files) = 1
    /\ CountFailedFiles(all_new_requests, processed_files) = 1

\* download_datasets has returned, or ended with an exception
Terminated == pc \in {"done", "raised", "config_error", "type_error"}

\* C23: completion: when every collaborator call terminates, download_datasets
\* terminates; and whenever it has returned, every new request is stored,
\* dropped after a None fetch or failed, and no fetch, transform or store of
\* the run is in flight.
C23_Completion ==
    /\ <>Terminated
    /\ [](pc = "done" =>
            /\ \A i \in New : stage[i] \in {"stored", "dropped", "failed"}
            /\ InFlight = {}
            /\ \A i \in Positions : stage[i] # "pending")

C23_Witness ==
    /\ pc = "done"
    /\ Len(partitions) = 2
    /\ \E i \in New : stage[i] = "stored"
    /\ \E i \in New : stage[i] = "dropped"
    /\ Slots = 2

\* C24: fetch failure is a value: whatever exception the provider client's
\* retrieve raised, download_raw_file does not raise; the call returns None,
\* which the bag's filter drops, and a call in which retrieve did not raise
\* returns the raw path, which the filter keeps.
C24_FetchFailureIsValue ==
    \A c \in RawFileCalls :
        LET call == fetcher_call.threads[c]
        IN /\ call.position # "raised"
           /\ call.position = "returned" =>
                 /\ call.error # "none" =>
                       /\ call.ret = None
                       /\ ~DownloadFilter(<<call.ret, 0>>)
                 /\ call.error = "none" =>
                       /\ call.ret = call.destination_path
                       /\ DownloadFilter(<<call.ret, 0>>)

\* C28: raw-file cache: a download_raw_file call returns the existing raw
\* path without calling client.retrieve iff the raw file it looked at (seen:
\* by stat(), or by exists() when that found none) existed with a size
\* strictly above min_size_bytes and update was false;
\* in every other case (no file, size at or below the threshold, update
\* true) it calls client.retrieve exactly once.
C28_RawFileCache ==
    \A c \in RawFileCalls :
        LET call == fetcher_call.threads[c]
            cached == call.seen # NoFile /\ ~call.update
                        /\ call.seen.sizes[1] >= MIN_VALID_SIZE_BYTES + 1
        IN call.position # "stat" =>
              /\ cached =>
                    /\ call.retrieves = 0
                    /\ call.position = "returned"
                    /\ call.ret = call.destination_path
              /\ ~cached => call.retrieves = 1

\* C25: provider request cardinality: for each run date the open-data
\* builder returned exactly one request per run time, 00, 06, 12, 18 in that
\* order, all of stream oper and type fc and all with that run date, and the
\* CDS builder returned exactly one request, for the year of the run date
\* with every month, day and hour of it.
C25_ProviderCardinality ==
    Built =>
        \A k \in 1..Len(builder_rets) :
            LET run_date == builder_calls[k]
                rs == builder_rets[k]
            IN /\ request_builder = "open_data" =>
                     /\ Len(rs) = 4
                     /\ \A j \in 1..Len(rs) :
                           /\ rs[j].run_time = 6 * (j - 1)
                           /\ rs[j].run_date = run_date
                           /\ rs[j].stream = "oper"
                           /\ rs[j].request_type = "fc"
               /\ request_builder = "cds" =>
                     /\ Len(rs) = 1
                     /\ rs[1].years = <<run_date.year>>
                     /\ RangeOf(rs[1].months) = 1..12
                     /\ RangeOf(rs[1].days) = 1..31
                     /\ RangeOf(rs[1].times) = 0..23

C25_Witness ==
    /\ Built
    /\ request_builder = "open_data"
    /\ offset_frequency = "DAILY"
    /\ Len(builder_rets) = 2
    /\ Len(all_requests) = 8
    /\ all_requests[5].run_date # all_requests[4].run_date
    /\ all_requests[5].run_time = 0

\* number of requests in the lists before the k-th
RECURSIVE LengthBefore(_, _)
LengthBefore(lists, k) ==
    IF k <= 1 THEN 0 ELSE LengthBefore(lists, k - 1) + Len(lists[k - 1])

\* C26: flattening: the sequence _build_default_requests returns holds, for
\* each run date in order, the requests the builder returned for it, in the
\* builder's order and all of them, so its length is the sum of the lengths
\* of the per-date lists; an offset count of 0 gives the empty sequence and
\* no call of the builder.
C26_Flattening ==
    Built =>
        /\ Len(builder_rets) = Len(builder_calls)
        /\ Len(all_requests) = LengthBefore(builder_rets, Len(builder_rets) + 1)
        /\ \A k \in 1..Len(builder_rets) :
              \A j \in 1..Len(builder_rets[k]) :
                  all_requests[LengthBefore(builder_rets, k) + j]
                      = builder_rets[k][j]
        /\ date_offset = 0 =>
              (all_requests = <<>> /\ builder_calls = <<>> /\ builder_rets = <<>>)

C26_Witness ==
    /\ Built
    /\ request_builder = "open_data"
    /\ Len(builder_rets) = 3
    /\ Len(all_requests) = 12
    /\ all_requests[9] = builder_rets[3][1]
    /\ all_requests[8] = builder_rets[2][4]

\* C27: check-then-schedule ordering: within a run no download_raw_file call
\* is made before every built request has had its is_valid call, is_valid is
\* called exactly once per built request, and the requests the run processes
\* are those whose artifact was not valid when the filter ran, whatever the
\* store holds at their paths later in the run.
C27_CheckThenSchedule ==
    /\ \A i \in Positions :
          isValidCalls[i] = (IF FilterDone THEN 1 ELSE 0)
    /\ (\E i \in Positions : fetchCalls[i] > 0) =>
          \A j \in Positions : isValidCalls[j] = 1
    /\ FilterDone =>
          /\ New = {i \in Positions :
                      ~(fs_prev[PathOf(i)] # NoFile
                          /\ TotalSize(fs_prev[PathOf(i)]) > MIN_VALID_SIZE_BYTES)}
          /\ \A i \in Positions : fetchCalls[i] > 0 => i \in New
    /\ pc = "done" => \A i \in New : fetchCalls[i] = 1

C27_Witness ==
    \E i, j \in Positions :
        /\ i # j
        /\ stage[i] = "stored"
        /\ PathOf(i) = PathOf(j)
        /\ IsValid(fs, PathOf(j), MIN_VALID_SIZE_BYTES)
        /\ ~is_valid_ret[j]
        /\ stage[j] = "fetching"
        /\ isValidCalls[j] = 1

\* C29: skipped artifacts are untouched: the is_valid calls of the filter
\* leave the store as it was, and for every request whose is_valid call
\* returned true in the run, the run makes no store call for it and the entry
\* at its artifact path stays the one the filter saw (never rewritten, never
\* removed).
C29_SkippedUntouched ==
    /\ pc \in {"load", "start", "filter", "process"} => fs = fs_prev
    /\ FilterDone =>
          \A i \in Positions :
              is_valid_ret[i] =>
                  /\ storeCalls[i] = 0
                  /\ transformCalls[i] = 0
                  /\ fs[is_valid_path[i]] = fs_prev[is_valid_path[i]]
                  /\ fs[is_valid_path[i]] # NoFile
                  /\ \A j \in Positions :
                        written[j] # is_valid_path[i]

C29_Witness ==
    /\ pc = "done"
    /\ fs # fs_prev
    /\ \E i, j \in Positions :
          /\ is_valid_ret[i]
          /\ storeCalls[i] = 0
          /\ fs[is_valid_path[i]] = fs_prev[is_valid_path[i]]
          /\ ~is_valid_ret[j]
          /\ stage[j] = "stored"
          /\ storeCalls[j] = 1

\* C30: the envelope pre-filter is safe: for every transform call, the rows
\* joined after filter_dataset are the rows filter_dask gives on the
\* untrimmed dataset, every row the join alone keeps has a longitude that
\* filter_dataset kept, and what transform returns is the post-processed
\* join of the untrimmed dataset.
C30_EnvelopePreFilterSafe ==
    \A t \in 1..Len(transform_tasks) :
        LET task == transform_tasks[t]
            alone == FilterDask(task.geo_filter, Process(task.dataset))
        IN /\ task.position \in {"trimmed", "joined", "returned"} =>
                \A row \in alone :
                    \E a \in 1..Len(task.trimmed.longitude) :
                        task.trimmed.longitude[a] = row.longitude
           /\ task.position \in {"joined", "returned"} => task.ddf = alone
           /\ task.position = "returned" => task.ret = PostProcess(alone)

C30_Witness ==
    \E t \in 1..Len(transform_tasks) :
        LET task == transform_tasks[t]
        IN /\ task.position = "returned"
           /\ Len(task.trimmed.longitude) < Len(task.dataset.longitude)
           /\ task.ret # {}
           /\ \E a \in 1..Len(task.trimmed.longitude) :
                 task.trimmed.longitude[a] \in
                     {Bounds(task.geo_filter).min_lon,
                      Bounds(task.geo_filter).max_lon}

====
